---- MODULE Spec2Model ----
(***************************************************************************)
(* A model of the NBA predictor's temporal pipeline: the Elo rating engine *)
(* (src/src/elo.py), the rolling feature builder in its batch              *)
(* (src/src/feature_engineer.py) and query (src/src/predictor.py) modes,   *)
(* the expanding-window backtest (src/src/backtest.py) and the per-day     *)
(* prediction orchestrator (src/src/predictor.py, src/src/db.py).          *)
(*                                                                         *)
(* Arithmetic.  The program computes in binary floating point.  The model  *)
(* computes in exact integer or rational arithmetic: ratings are held in   *)
(* thousandths of a rating point, probabilities in ten-thousandths, and    *)
(* per-game statistics as reduced fractions.  Rounding of the last binary  *)
(* digit is not modelled.                                                  *)
(***************************************************************************)
EXTENDS Integers, Sequences, FiniteSets, TLC

VARIABLES
    ratings,    \* EloSystem.ratings: team id -> rating (thousandths)
    history,    \* the calls made on the engine so far, in order
    last,       \* what the last engine call read and wrote
    mov_in,     \* the margin handed to mov_multiplier
    mov_out,    \* its result, or -1 before the call
    logs,       \* table game_logs: the rows in insertion (rowid) order
    team_rolling, \* build_game_features_df: team_id -> team_df of the last
                \* build, each row with its rolling snapshot
    built_at,   \* number of rows the last build saw, -1 before any build
    tie_rev,    \* how the platform's sorts leave rows of equal date:
                \* FALSE in insertion order, TRUE in reverse insertion order
    snapshot,   \* the last _compute_team_rolling call with what it returned,
                \* <<>> before any call
    seasons,    \* expanding_window_backtest: the season list passed in
    games_df,   \* the feature table passed in, one row per game
    results,    \* the fold results returned, "none" before the run
    fits,       \* number of models trained by the run
    today,      \* the calendar date predict_today reads from the clock
    schedule,   \* what the scoreboard feed lists for today
    predictions, \* table predictions: a set of rows
    next_id,    \* the next AUTOINCREMENT id of table predictions
    runs_today, \* predict_today invocations finished today
    compute_runs, \* of these, the ones that went past the existing check
    last_run,   \* what the last invocation did and returned
    results_table \* table results: a set of rows, one per scored game

eloVars == <<ratings, history, last>>

movVars == <<mov_in, mov_out>>

rollVars == <<logs, team_rolling, built_at, tie_rev, snapshot>>

btVars == <<seasons, games_df, results, fits>>

predVars ==
    <<today, schedule, predictions, next_id, runs_today, compute_runs,
      last_run, results_table>>

vars == <<eloVars, movVars, rollVars, btVars, predVars>>

----------------------------------------------------------------------------
(* Small helpers *)

Abs(x) == IF x < 0 THEN -x ELSE x

Max(a, b) == IF a >= b THEN a ELSE b

Min(a, b) == IF a <= b THEN a ELSE b

\* Division rounding toward zero, as a float product would not favour a sign.
SDiv(n, d) == IF n >= 0 THEN n \div d ELSE -((-n) \div d)

----------------------------------------------------------------------------
(* config.py *)

ELO_INITIAL == 1500

ELO_K == 20

ELO_HOME_ADVANTAGE == 100

\* ELO_SEASON_REVERT = 0.75, in hundredths
ELO_SEASON_REVERT == 75

ROLLING_WINDOW == 10

\* one rating point in the model's unit (thousandths)
Milli == 10 * 100

----------------------------------------------------------------------------
(* src/src/elo.py *)

\* 10 ** (k / 16) for k = 0..16, in ten-thousandths (rounded)
Pow10Table ==
    << 10000, 11548, 13335, 15399, 17783, 20535, 23714, 27384, 31623,
       36517, 42170, 48697, 56234, 64938, 74989, 86596, 100000 >>

\* 10 ** (x / 400.0) in ten-thousandths, x in thousandths of a point:
\* the table above at steps of 25 points, linear in between.
Pow10Over400(x) ==
    LET step == 25 * Milli
        k    == x \div step
        frac == x % step
        q    == k \div 16
        j    == k % 16
        lo   == Pow10Table[j + 1]
        hi   == Pow10Table[j + 2]
        m    == lo + ((hi - lo) * frac) \div step
    IN  CASE q = 0  -> m
          [] q = 1  -> m * 10
          [] q = 2  -> m * 100
          [] q = -1 -> m \div 10
          [] q = -2 -> m \div 100
          [] q = -3 -> m \div 1000
          [] q > 2  -> m * 1000
          [] OTHER  -> 0

\* expected_score(rating_a, rating_b), in ten-thousandths
expected_score(rating_a, rating_b) ==
    (10000 * 10000) \div (10000 + Pow10Over400(rating_b - rating_a))

\* floor(100 * m ** 0.8) for m = 0..60 (entry m + 1)
Pow08Table ==
    << 0, 100, 174, 240, 303, 362, 419, 474, 527, 579, 630, 680, 730, 778,
       825, 872, 918, 964, 1009, 1054, 1098, 1142, 1185, 1228, 1271, 1313,
       1355, 1396, 1437, 1478, 1519, 1559, 1600, 1639, 1679, 1718, 1758,
       1797, 1835, 1874, 1912, 1950, 1988, 2026, 2064, 2101, 2138, 2176,
       2213, 2249, 2286, 2323, 2359, 2395, 2431, 2467, 2503, 2539, 2574,
       2610, 2645 >>

\* a plausible slip: the floor of 1.0 is forgotten
movNoFloor(margin) == Pow08Table[Abs(margin) + 1]

\* mov_multiplier(margin) = max(abs(margin) ** 0.8 / 10.0, 1.0), thousandths
mov_multiplier(margin) == Max(Pow08Table[Abs(margin) + 1], 1 * Milli)

\* EloSystem.__init__: the empty rating map
EmptyRatings == [t \in {} |-> 0]

\* EloSystem.get_rating
get_rating(r, team_id) ==
    IF team_id \in DOMAIN r THEN r[team_id] ELSE ELO_INITIAL * Milli

\* a plausible slip: the home advantage is left out of the expectation
eloDeltaNoAdvantage(r, home_id, away_id, home_pts, away_pts) ==
    LET home_expected == expected_score(get_rating(r, home_id),
                                        get_rating(r, away_id))
        home_actual   == IF home_pts > away_pts THEN 10000 ELSE 0
        mult          == mov_multiplier(home_pts - away_pts)
    IN  SDiv(ELO_K * mult * (home_actual - home_expected), 10000)

\* a plausible slip: a tie is scored as a home win (>= for >)
eloDeltaTieWin(r, home_id, away_id, home_pts, away_pts) ==
    LET home_expected == expected_score(
                             get_rating(r, home_id)
                                 + ELO_HOME_ADVANTAGE * Milli,
                             get_rating(r, away_id))
        home_actual   == IF home_pts >= away_pts THEN 10000 ELSE 0
        mult          == mov_multiplier(home_pts - away_pts)
    IN  SDiv(ELO_K * mult * (home_actual - home_expected), 10000)

\* the rating delta computed by EloSystem.update
EloDelta(r, home_id, away_id, home_pts, away_pts) ==
    LET home_elo      == get_rating(r, home_id)
        away_elo      == get_rating(r, away_id)
        home_expected == expected_score(home_elo + ELO_HOME_ADVANTAGE * Milli,
                                        away_elo)
        home_actual   == IF home_pts > away_pts THEN 10000 ELSE 0
        margin        == home_pts - away_pts
        mult          == mov_multiplier(margin)
    IN  SDiv(ELO_K * mult * (home_actual - home_expected), 10000)

\* a plausible slip: the away side is moved by the delta recomputed after the
\* home side was already written
updateReread(r, home_id, away_id, home_pts, away_pts) ==
    LET home_elo == get_rating(r, home_id)
        delta    == EloDelta(r, home_id, away_id, home_pts, away_pts)
        r1 == [t \in DOMAIN r \cup {home_id} |->
                 IF t = home_id THEN home_elo + delta ELSE r[t]]
        d2 == EloDelta(r1, home_id, away_id, home_pts, away_pts)
    IN  [t \in DOMAIN r1 \cup {away_id} |->
           IF t = away_id THEN get_rating(r, away_id) - d2 ELSE r1[t]]

\* a plausible slip: the league is kept zero-sum by taking the home side's
\* gain from every other team in the map instead of from the away side alone
updateSpread(r, home_id, away_id, home_pts, away_pts) ==
    LET home_elo == get_rating(r, home_id)
        delta    == EloDelta(r, home_id, away_id, home_pts, away_pts)
        others   == (DOMAIN r \cup {away_id}) \ {home_id}
        share    == IF others = {} THEN 0
                    ELSE SDiv(delta, Cardinality(others))
    IN  [t \in DOMAIN r \cup {home_id, away_id} |->
           IF t = home_id THEN home_elo + delta
           ELSE get_rating(r, t) - share]

\* EloSystem.update: the rating map after the call.  Both ratings are read
\* first; the home entry is written, then the away entry.
update(r, home_id, away_id, home_pts, away_pts) ==
    LET home_elo == get_rating(r, home_id)
        away_elo == get_rating(r, away_id)
        delta    == EloDelta(r, home_id, away_id, home_pts, away_pts)
        r1 == [t \in DOMAIN r \cup {home_id} |->
                 IF t = home_id THEN home_elo + delta ELSE r[t]]
    IN  [t \in DOMAIN r1 \cup {away_id} |->
           IF t = away_id THEN away_elo - delta ELSE r1[t]]

\* a plausible slip: the ratings revert to a mean 5 points below the initial
\* value instead of 5 points above
seasonResetBelowMean(r) ==
    LET mean_elo == (ELO_INITIAL - 5) * Milli
    IN  [t \in DOMAIN r |->
           (ELO_SEASON_REVERT * r[t] + (100 - ELO_SEASON_REVERT) * mean_elo)
               \div 100]

\* EloSystem.season_reset
season_reset(r) ==
    LET mean_elo == (ELO_INITIAL + 5) * Milli
    IN  [t \in DOMAIN r |->
           (ELO_SEASON_REVERT * r[t] + (100 - ELO_SEASON_REVERT) * mean_elo)
               \div 100]

----------------------------------------------------------------------------
(* The parts of the state a specification leaves alone *)

NoCall ==
    [op |-> "none", home |-> 0, away |-> 0, home_pts |-> 0, away_pts |-> 0,
     old_home |-> 0, old_away |-> 0, new_home |-> 0, new_away |-> 0]

IdleElo ==
    /\ ratings = EmptyRatings
    /\ history = <<>>
    /\ last = NoCall

IdleMov ==
    /\ mov_in = 0
    /\ mov_out = -1

IdleRoll ==
    /\ logs = <<>>
    /\ team_rolling = <<>>
    /\ built_at = -1
    /\ tie_rev = FALSE
    /\ snapshot = <<>>

IdleBt ==
    /\ seasons = <<>>
    /\ games_df = <<>>
    /\ results = "none"
    /\ fits = 0

NoRun ==
    [path |-> "none", returned |-> <<>>, fetches |-> 0, inferences |-> 0,
     writes |-> 0, odds |-> <<>>]

IdlePred ==
    /\ today = 0
    /\ schedule = <<>>
    /\ predictions = {}
    /\ next_id = 1
    /\ runs_today = 0
    /\ compute_runs = 0
    /\ last_run = NoRun
    /\ results_table = {}

----------------------------------------------------------------------------
(* Float columns as exact fractions *)

RECURSIVE GCD(_, _)
GCD(a, b) == IF b = 0 THEN a ELSE GCD(b, a % b)

\* a missing value (None in the table, NaN in a DataFrame)
NaN == [nan |-> TRUE, num |-> 0, den |-> 1]

\* the number n / d (d > 0) in lowest terms
Frac(n, d) ==
    LET g == GCD(Abs(n), d)
    IN  [nan |-> FALSE, num |-> n \div g, den |-> d \div g]

FAdd(a, b) == Frac(a.num * b.den + b.num * a.den, a.den * b.den)

FSub(a, b) == Frac(a.num * b.den - b.num * a.den, a.den * b.den)

----------------------------------------------------------------------------
(* Per-game intermediates: feature_engineer.py 24-32, predictor.py 30-34 *)

pts_allowed(r) == r.pts - r.plus_minus

\* 100 * poss, poss = fga - oreb + tov + 0.44 * fta
poss100(r) == 100 * (r.fga - r.oreb + r.tov) + 44 * r.fta

off_rating(r) ==
    IF poss100(r) > 0 THEN Frac(r.pts * 10000, poss100(r)) ELSE Frac(100, 1)

def_rating(r) ==
    IF poss100(r) > 0 THEN Frac(pts_allowed(r) * 10000, poss100(r))
    ELSE Frac(100, 1)

net_rating(r) == FSub(off_rating(r), def_rating(r))

rolling_cols ==
    << "off_rating", "def_rating", "net_rating", "fg_pct", "fg3_pct",
       "ft_pct", "reb", "ast", "tov", "pts", "pts_allowed" >>

\* the rolling columns of one row, in the order of rolling_cols
ColVector(r) ==
    << off_rating(r), def_rating(r), net_rating(r), r.fg_pct, r.fg3_pct,
       r.ft_pct, Frac(r.reb, 1), Frac(r.ast, 1), Frac(r.tov, 1),
       Frac(r.pts, 1), Frac(pts_allowed(r), 1) >>

RECURSIVE ColsUpTo(_, _)
\* the rolling columns of rows 1..n of a frame
ColsUpTo(df, n) ==
    IF n = 0 THEN <<>> ELSE Append(ColsUpTo(df, n - 1), ColVector(df[n]))

\* the rolling columns of a frame, row by row
FrameCols(df) == ColsUpTo(df, Len(df))

RECURSIVE SumCol(_, _, _)
\* the sum of column c over rows 1..n of the column frame w, NaN skipped
SumCol(w, c, n) ==
    IF n = 0 THEN Frac(0, 1)
    ELSE IF w[n][c].nan THEN SumCol(w, c, n - 1)
    ELSE FAdd(w[n][c], SumCol(w, c, n - 1))

\* mean of column c over the column frame w, NaN skipped; NaN when fewer
\* than min_periods values are present
MeanSkipNa(w, c, min_periods) ==
    LET n == Cardinality({k \in 1..Len(w) : ~w[k][c].nan})
        t == SumCol(w, c, Len(w))
    IN  IF n < min_periods THEN NaN ELSE Frac(t.num, t.den * n)

----------------------------------------------------------------------------
(* The game log store: db.py *)

\* rowid i sorts before rowid j under sort_values("game_date") / ORDER BY
\* game_date; rows of equal date fall as the platform leaves them
SortsBefore(L, i, j, rev) ==
    \/ L[i].game_date < L[j].game_date
    \/ /\ L[i].game_date = L[j].game_date
       /\ IF rev THEN i > j ELSE i < j

RECURSIVE SortUpTo(_, _, _, _)
\* the rowids of S among 1..n in sorted order
SortUpTo(L, S, n, rev) ==
    IF n = 0 THEN <<>>
    ELSE LET s == SortUpTo(L, S, n - 1, rev)
             p == Cardinality({k \in 1..Len(s) : SortsBefore(L, s[k], n, rev)})
         IN  IF n \notin S THEN s
             ELSE SubSeq(s, 1, p) \o <<n>> \o SubSeq(s, p + 1, Len(s))

\* the rowids S in sorted order
SortIdx(L, S, rev) == SortUpTo(L, S, Len(L), rev)

\* get_team_game_logs(team_id, before_date): rowids, ordered by game_date
get_team_game_logs(L, team_id, before_date, rev) ==
    SortIdx(L, {i \in 1..Len(L) : /\ L[i].team_id = team_id
                                  /\ L[i].game_date < before_date}, rev)

\* df.groupby("team_id") then sort_values("game_date"): rowids of one team
TeamFrameIdx(L, team_id, rev) ==
    SortIdx(L, {i \in 1..Len(L) : L[i].team_id = team_id}, rev)

\* the rows at the rowids idx
Frame(L, idx) == [k \in 1..Len(idx) |-> L[idx[k]]]

----------------------------------------------------------------------------
(* Batch mode: build_game_features_df, feature_engineer.py 41-83 *)

\* min_periods of the rolling mean
MinPeriods == 3

\* default rest days of a team's first game
DefaultRest == 3

RECURSIVE curStreakNoRestart(_, _)
\* a plausible slip: the streak is not restarted when the outcome flips, a
\* loss only takes one off a winning run
curStreakNoRestart(df, n) ==
    IF n = 0 THEN 0
    ELSE LET p == curStreakNoRestart(df, n - 1)
         IN  IF df[n].wl = "W" THEN p + 1 ELSE p - 1

RECURSIVE CurStreak(_, _)
\* current_streak after the loop consumed rows 1..n of the frame
CurStreak(df, n) ==
    IF n = 0 THEN 0
    ELSE LET p == CurStreak(df, n - 1)
         IN  IF df[n].wl = "W" THEN Max(p, 0) + 1 ELSE Min(p, 0) - 1

\* a plausible slip: the shift by one is forgotten, the window ends at the
\* row itself
BatchWindowNoShift(w, k) == SubSeq(w, Max(1, k - ROLLING_WINDOW + 1), k)

\* shift(1).rolling(window=ROLLING_WINDOW): the rows the window of row k holds
BatchWindow(w, k) == SubSeq(w, Max(1, k - ROLLING_WINDOW), k - 1)

\* a plausible slip: the cumulative counts are not shifted, the game of the
\* row itself is counted
batchSnapshotCountsRow(df, w, k) ==
    LET cum_wins  == Cardinality({n \in 1..k : df[n].wl = "W"})
        cum_games == k
        rest_days == IF k = 1 THEN DefaultRest
                     ELSE df[k].game_date - df[k - 1].game_date
    IN  [ok   |-> TRUE,
         roll |-> [c \in 1..Len(rolling_cols) |->
                      MeanSkipNa(BatchWindow(w, k), c, MinPeriods)],
         win_streak     |-> CurStreak(df, k - 1),
         season_win_pct |-> Frac(cum_wins, cum_games),
         rest_days      |-> rest_days,
         b2b            |-> IF rest_days <= 1 THEN 1 ELSE 0]

\* the rolling snapshot of row k of a team's sorted frame df, whose rolling
\* columns are w
BatchSnapshot(df, w, k) ==
    LET cum_wins  == Cardinality({n \in 1..(k - 1) : df[n].wl = "W"})
        cum_games == k - 1
        rest_days == IF k = 1 THEN DefaultRest
                     ELSE df[k].game_date - df[k - 1].game_date
    IN  [ok   |-> TRUE,
         roll |-> [c \in 1..Len(rolling_cols) |->
                      MeanSkipNa(BatchWindow(w, k), c, MinPeriods)],
         win_streak     |-> CurStreak(df, k - 1),
         season_win_pct |-> IF cum_games > 0 THEN Frac(cum_wins, cum_games)
                            ELSE Frac(1, 2),
         rest_days      |-> rest_days,
         b2b            |-> IF rest_days <= 1 THEN 1 ELSE 0]

RECURSIVE TeamFrameUpTo(_, _, _, _)
\* rows 1..n of a team's frame with their rolling snapshot
TeamFrameUpTo(idx, df, w, n) ==
    IF n = 0 THEN <<>>
    ELSE Append(TeamFrameUpTo(idx, df, w, n - 1),
                [rowid |-> idx[n], game_id |-> df[n].game_id,
                 game_date |-> df[n].game_date,
                 snap |-> BatchSnapshot(df, w, n)])

\* team_df of one team after the loop body (feature_engineer.py 43-81)
TeamFrame(L, team_id, rev) ==
    LET idx == TeamFrameIdx(L, team_id, rev)
        df  == Frame(L, idx)
        w   == FrameCols(df)
    IN  TeamFrameUpTo(idx, df, w, Len(idx))

\* team_rolling of build_game_features_df: team_id -> team_df
build_team_rolling(L, rev) ==
    [t \in {L[i].team_id : i \in 1..Len(L)} |-> TeamFrame(L, t, rev)]

----------------------------------------------------------------------------
(* Query mode: _compute_team_rolling, predictor.py 20-78 *)

\* fewer prior games than this: no snapshot
MinGames == 3

\* the value returned for insufficient data (None)
NoSnapshot ==
    [ok |-> FALSE, roll |-> <<>>, win_streak |-> 0,
     season_win_pct |-> NaN, rest_days |-> 0, b2b |-> 0]

RECURSIVE QueryStreak(_, _, _)
\* the second streak loop (predictor.py 53-63), walking the frame backwards
\* from row n with the streak so far
QueryStreak(df, n, streak) ==
    IF n = 0 THEN streak
    ELSE IF streak = 0
         THEN QueryStreak(df, n - 1, IF df[n].wl = "W" THEN 1 ELSE -1)
    ELSE IF streak > 0 /\ df[n].wl = "W"
         THEN QueryStreak(df, n - 1, streak + 1)
    ELSE IF streak < 0 /\ df[n].wl = "L"
         THEN QueryStreak(df, n - 1, streak - 1)
    ELSE streak

\* _compute_team_rolling(team_id, before_date) on the store L
compute_team_rolling(L, team_id, before_date, rev) ==
    LET idx == get_team_game_logs(L, team_id, before_date, rev)
        df  == Frame(L, idx)
        n   == Len(df)
        last_n    == SubSeq(FrameCols(df), Max(1, n - ROLLING_WINDOW + 1), n)
        wins      == Cardinality({k \in 1..n : df[k].wl = "W"})
        rest_days == IF n >= 1 THEN before_date - df[n].game_date
                     ELSE DefaultRest
    IN  IF n < MinGames THEN NoSnapshot
        ELSE [ok   |-> TRUE,
              roll |-> [c \in 1..Len(rolling_cols) |->
                           MeanSkipNa(last_n, c, 1)],
              win_streak     |-> QueryStreak(df, n, 0),
              season_win_pct |-> IF n > 0 THEN Frac(wins, n) ELSE Frac(1, 2),
              rest_days      |-> rest_days,
              b2b            |-> IF rest_days <= 1 THEN 1 ELSE 0]

----------------------------------------------------------------------------
(* The store and the two modes driven by inserts and builds *)

\* box scores the inserted rows are drawn from; percentages in thousandths
WinLine ==
    [wl |-> "W", pts |-> 110, plus_minus |-> 10, fga |-> 88, oreb |-> 10,
     tov |-> 11, fta |-> 25, fg_pct |-> Frac(500, 1), fg3_pct |-> Frac(400, 1),
     ft_pct |-> Frac(800, 1), reb |-> 45, ast |-> 25]

\* a loss without a made three: data_fetcher stores a percentage of 0 as None
LossLine ==
    [wl |-> "L", pts |-> 96, plus_minus |-> -8, fga |-> 85, oreb |-> 12,
     tov |-> 12, fta |-> 25, fg_pct |-> Frac(450, 1), fg3_pct |-> NaN,
     ft_pct |-> Frac(750, 1), reb |-> 40, ast |-> 20]

\* a forfeit: no possessions, every percentage None
ForfeitLine ==
    [wl |-> "L", pts |-> 0, plus_minus |-> -2, fga |-> 0, oreb |-> 0,
     tov |-> 0, fta |-> 0, fg_pct |-> NaN, fg3_pct |-> NaN,
     ft_pct |-> NaN, reb |-> 0, ast |-> 0]

StatLines == {WinLine, LossLine, ForfeitLine}

\* one row of game_logs
MakeRow(game_id, game_date, team_id, line) ==
    [game_id |-> game_id, game_date |-> game_date, team_id |-> team_id,
     wl |-> line.wl, pts |-> line.pts, plus_minus |-> line.plus_minus,
     fga |-> line.fga, oreb |-> line.oreb, tov |-> line.tov,
     fta |-> line.fta, fg_pct |-> line.fg_pct, fg3_pct |-> line.fg3_pct,
     ft_pct |-> line.ft_pct, reb |-> line.reb, ast |-> line.ast]

\* rows a store may hold at the start: a season of team 1 played every
\* second day
BaseLen == 11

MaxAppend == 2

BaseLogs ==
    [k \in 1..BaseLen |->
        MakeRow(k, 2 * k, 1, IF k % 3 = 2 THEN LossLine ELSE WinLine)]

\* rows inserted after the start
Appended == {i \in 1..Len(logs) : logs[i].game_id > BaseLen}

LastDate ==
    IF logs = <<>> THEN 0
    ELSE CHOOSE d \in {logs[i].game_date : i \in 1..Len(logs)} :
            \A i \in 1..Len(logs) : logs[i].game_date <= d

InitRoll ==
    /\ IdleElo
    /\ IdleMov
    /\ IdleBt
    /\ IdlePred
    /\ \E n \in {0, MinGames, BaseLen} : logs = SubSeq(BaseLogs, 1, n)
    /\ team_rolling = <<>>
    /\ built_at = -1
    /\ tie_rev \in BOOLEAN
    /\ snapshot = <<>>

\* insert_game_logs with one row of a new game (the key is new, so the row
\* is never ignored)
InsertGameLog(team_id, line, game_date) ==
    /\ Cardinality(Appended) < MaxAppend
    /\ game_date >= 1
    /\ logs' = Append(logs, MakeRow(BaseLen + Cardinality(Appended) + 1,
                                    game_date, team_id, line))
    /\ UNCHANGED <<team_rolling, built_at, tie_rev, snapshot, eloVars,
                   movVars, btVars, predVars>>

\* build_game_features_df up to team_rolling, on the store as it is
BuildFeatures ==
    /\ logs # <<>>
    /\ built_at # Len(logs)
    /\ team_rolling' = build_team_rolling(logs, tie_rev)
    /\ built_at' = Len(logs)
    /\ UNCHANGED <<logs, tie_rev, snapshot, eloVars, movVars, btVars,
                   predVars>>

NextRoll ==
    \/ \E line \in StatLines, d \in (LastDate - 1)..(LastDate + 1) :
          InsertGameLog(1, line, d)
    \/ \E d \in LastDate..(LastDate + 1) : InsertGameLog(2, WinLine, d)
    \/ BuildFeatures

SpecRoll == InitRoll /\ [][NextRoll]_vars

\* rows of the same team dated before row i
PriorGames(L, i) ==
    {j \in 1..Len(L) : /\ L[j].team_id = L[i].team_id
                       /\ L[j].game_date < L[i].game_date}

\* the dates a cutoff is taken from: the game dates and the day after
CutoffDates ==
    {logs[i].game_date : i \in 1..Len(logs)} \cup {LastDate + 1}

\* the rows of team t's frame in table T that have rowid i
RowsOf(T, t, i) ==
    IF t \in DOMAIN T
    THEN {T[t][k] : k \in {x \in 1..Len(T[t]) : T[t][x].rowid = i}}
    ELSE {}

\* C1: an output for cutoff D is unchanged by appending rows dated D or
\* later: the batch row of every game built before the append keeps its
\* snapshot in the next build, and a query for D gives the same snapshot
\* after the insert as before.
C1_LeakageFree ==
    [][ /\ \A i \in 1..built_at :
              ( /\ built_at' > built_at
                /\ \A j \in (built_at + 1)..built_at' :
                      logs'[j].game_date >= logs[i].game_date )
              => RowsOf(team_rolling', logs[i].team_id, i)
                   = RowsOf(team_rolling, logs[i].team_id, i)
        /\ logs' # logs =>
              \A t \in {1, 2}, D \in CutoffDates :
                  ( \A j \in (Len(logs) + 1)..Len(logs') :
                        logs'[j].game_date >= D )
                  => compute_team_rolling(logs', t, D, tie_rev)
                       = compute_team_rolling(logs, t, D, tie_rev)
      ]_vars

\* batch row b and the query at that row's date agree on every field
SameSnapshot(t, b) ==
    LET q == compute_team_rolling(logs, t, b.game_date, tie_rev)
    IN  /\ q.ok
        /\ b.snap.roll = q.roll
        /\ b.snap.win_streak = q.win_streak
        /\ b.snap.season_win_pct = q.season_win_pct
        /\ b.snap.rest_days = q.rest_days
        /\ b.snap.b2b = q.b2b

\* C2: for every game of a team with at least 3 prior games, the batch row
\* and the query at the game's date agree on all 11 means, win_streak,
\* season_win_pct, rest_days and b2b.
C2_TrainServeEquivalence ==
    built_at = Len(logs) =>
        \A t \in DOMAIN team_rolling :
            \A k \in 1..Len(team_rolling[t]) :
                Cardinality(PriorGames(logs, team_rolling[t][k].rowid))
                    >= MinGames
                => SameSnapshot(t, team_rolling[t][k])

----------------------------------------------------------------------------
(* The rating engine driven by calls *)

Teams == {1, 2, 3}

\* (home_pts, away_pts) of the games fed to the engine
ScoreLines == { <<110, 100>>, <<100, 110>>, <<100, 100>>, <<125, 100>> }

MaxCalls == 3

InitElo ==
    /\ IdleElo
    /\ IdleMov
    /\ IdleRoll
    /\ IdleBt
    /\ IdlePred

\* a plausible slip: update consults state kept outside the rating map (a
\* process-wide flag left set by an earlier call) and then applies the game
\* twice, so the map is no longer a function of the calls alone
UpdateCallAmbient(h, a, s) ==
    /\ Len(history) < MaxCalls
    /\ LET r1 == update(ratings, h, a, s[1], s[2])
           r2 == IF Len(history) > 0 THEN update(r1, h, a, s[1], s[2]) ELSE r1
       IN  /\ ratings' = r2
           /\ last' = [op |-> "update", home |-> h, away |-> a,
                       home_pts |-> s[1], away_pts |-> s[2],
                       old_home |-> get_rating(ratings, h),
                       old_away |-> get_rating(ratings, a),
                       new_home |-> r2[h], new_away |-> r2[a]]
    /\ history' = Append(history,
                         [op |-> "update", home |-> h, away |-> a,
                          home_pts |-> s[1], away_pts |-> s[2]])
    /\ UNCHANGED <<movVars, rollVars, btVars, predVars>>

\* a call of EloSystem.update on the running engine
UpdateCall(h, a, s) ==
    /\ Len(history) < MaxCalls
    /\ LET r2 == update(ratings, h, a, s[1], s[2])
       IN  /\ ratings' = r2
           /\ last' = [op |-> "update", home |-> h, away |-> a,
                       home_pts |-> s[1], away_pts |-> s[2],
                       old_home |-> get_rating(ratings, h),
                       old_away |-> get_rating(ratings, a),
                       new_home |-> r2[h], new_away |-> r2[a]]
    /\ history' = Append(history,
                         [op |-> "update", home |-> h, away |-> a,
                          home_pts |-> s[1], away_pts |-> s[2]])
    /\ UNCHANGED <<movVars, rollVars, btVars, predVars>>

\* a call of EloSystem.season_reset on the running engine
ResetCall ==
    /\ Len(history) < MaxCalls
    /\ ratings' = season_reset(ratings)
    /\ last' = [NoCall EXCEPT !.op = "reset"]
    /\ history' = Append(history,
                         [op |-> "reset", home |-> 0, away |-> 0,
                          home_pts |-> 0, away_pts |-> 0])
    /\ UNCHANGED <<movVars, rollVars, btVars, predVars>>

NextElo ==
    \/ \E h \in Teams, a \in Teams, s \in ScoreLines : UpdateCall(h, a, s)
    \/ ResetCall

SpecElo == InitElo /\ [][NextElo]_vars

\* one call applied to a rating map
ApplyCall(r, c) ==
    IF c.op = "update"
    THEN update(r, c.home, c.away, c.home_pts, c.away_pts)
    ELSE season_reset(r)

RECURSIVE Replay(_)
\* a fresh engine fed the calls of h in order
Replay(h) ==
    IF h = <<>> THEN EmptyRatings
    ELSE ApplyCall(Replay(SubSeq(h, 1, Len(h) - 1)), h[Len(h)])

\* C3 as stated: every update call, whatever its arguments, moves the home
\* and the away rating by opposite amounts.
C3_ZeroSumAnyArguments ==
    last.op = "update" =>
        (last.new_home - last.old_home) = -(last.new_away - last.old_away)

\* C3 amended: every update call between two distinct teams moves the home
\* and the away rating by opposite amounts (unseen teams start at 1500).
C3_ZeroSumDistinctTeams ==
    (last.op = "update" /\ last.home # last.away) =>
        (last.new_home - last.old_home) = -(last.new_away - last.old_away)

\* an update between distinct teams with different ratings that moved them
C3_Witness ==
    /\ last.op = "update"
    /\ last.home # last.away
    /\ last.old_home # last.old_away
    /\ last.new_home # last.old_home

----------------------------------------------------------------------------
(* mov_multiplier as a function of the margin *)

MaxMargin == 30

InitMov ==
    /\ IdleElo
    /\ IdleRoll
    /\ IdleBt
    /\ IdlePred
    /\ mov_in \in -MaxMargin..MaxMargin
    /\ mov_out = -1

ApplyMov ==
    /\ mov_out = -1
    /\ mov_out' = mov_multiplier(mov_in)
    /\ UNCHANGED <<mov_in, eloVars, rollVars, btVars, predVars>>

NextMov == ApplyMov

SpecMov == InitMov /\ [][NextMov]_vars

\* C5 as stated: the multiplier is exactly 1.0 for |margin| <= 10 and
\* strictly increasing in |margin| from 10 on.
C5_FloorUpToTen ==
    mov_out # -1 =>
        /\ (Abs(mov_in) <= 10 => mov_out = 1 * Milli)
        /\ (Abs(mov_in) >= 10 => mov_multiplier(Abs(mov_in) + 1) > mov_out)

\* C5 amended: the multiplier is exactly 1.0 for |margin| <= 17 and strictly
\* increasing in |margin| from 17 on.
C5_FloorUpToSeventeen ==
    mov_out # -1 =>
        /\ (Abs(mov_in) <= 17 => mov_out = 1 * Milli)
        /\ (Abs(mov_in) >= 17 => mov_multiplier(Abs(mov_in) + 1) > mov_out)

\* the first margin above the floor has been evaluated
C5_Witness == mov_in = -18 /\ mov_out > 1 * Milli

----------------------------------------------------------------------------
(* The expanding-window backtest: expanding_window_backtest, backtest.py *)

\* the season labels a run may be given; a label stands for a string such
\* as "2018-19"
NumLabels == 5

Labels == 1..NumLabels

\* the values of a list
Range(f) == {f[k] : k \in 1..Len(f)}

\* range(2, len(seasons) - 1): the fold indices i, 0-based as in the code
FoldRange(ss) == 2..(Len(ss) - 2)

\* a plausible slip: the training slice runs one season too far
trainSeasonsThroughTest(ss, i) == SubSeq(ss, 1, i + 2)

\* a plausible slip: a sliding window of three seasons instead of an
\* expanding one
trainSeasonsSliding(ss, i) == SubSeq(ss, i - 1, i + 1)

\* seasons[:i + 1]
train_seasons(ss, i) == SubSeq(ss, 1, i + 1)

\* seasons[i + 1]
test_season(ss, i) == ss[i + 2]

\* games_df["season"].isin(train_seasons): the positions of the rows kept
train_mask(df, ss, i) ==
    {k \in 1..Len(df) : df[k].season \in Range(train_seasons(ss, i))}

\* games_df["season"] == test_season
test_mask(df, ss, i) ==
    {k \in 1..Len(df) : df[k].season = test_season(ss, i)}

\* a plausible slip: the empty test season is not skipped
foldNeverSkipped(df, ss, i) == FALSE

\* len(test_df) == 0
FoldSkipped(df, ss, i) == test_mask(df, ss, i) = {}

\* the models one evaluated fold trains
FoldModels == {"win_model", "spread_model", "total_model"}

\* fold_result of fold i, with the rows the fold trained and tested on
\* (train_df, test_df) kept beside test_season and n_games; the metrics are
\* values of the fitted models and are left out
fold_result(df, ss, i) ==
    [i |-> i,
     test_season |-> test_season(ss, i),
     n_games     |-> Cardinality(test_mask(df, ss, i)),
     train_rows  |-> train_mask(df, ss, i),
     test_rows   |-> test_mask(df, ss, i)]

RECURSIVE BacktestFrom(_, _, _, _)
\* the loop from fold index i on, acc holding the results and the number
\* of models trained so far
BacktestFrom(df, ss, i, acc) ==
    IF i \notin FoldRange(ss) THEN acc
    ELSE IF FoldSkipped(df, ss, i) THEN BacktestFrom(df, ss, i + 1, acc)
    ELSE BacktestFrom(df, ss, i + 1,
             [results |-> Append(acc.results, fold_result(df, ss, i)),
              fits    |-> acc.fits + Cardinality(FoldModels)])

expanding_window_backtest(df, ss) ==
    BacktestFrom(df, ss, 2, [results |-> <<>>, fits |-> 0])

\* lists of distinct season labels, in any order
SeasonLists ==
    {ss \in UNION {[1..n -> Labels] : n \in 0..NumLabels} :
        \A a, b \in DOMAIN ss : a # b => ss[a] # ss[b]}

RECURSIVE FrameRows(_, _)
\* a feature table holding c[l] games of season l, latest season first
FrameRows(c, l) ==
    IF l = 0 THEN <<>>
    ELSE [k \in 1..c[l] |-> [season |-> l, game_id |-> 10 * l + k]]
         \o FrameRows(c, l - 1)

\* feature tables: every season has two games or none
FeatureTables == {FrameRows(c, NumLabels) : c \in [Labels -> {0, 2}]}

InitBt ==
    /\ IdleElo
    /\ IdleMov
    /\ IdleRoll
    /\ IdlePred
    /\ seasons \in SeasonLists
    /\ games_df \in FeatureTables
    /\ results = "none"
    /\ fits = 0

\* one call expanding_window_backtest(games_df, feature_cols, seasons)
RunBacktest ==
    /\ results = "none"
    /\ LET r == expanding_window_backtest(games_df, seasons)
       IN  /\ results' = r.results
           /\ fits' = r.fits
    /\ UNCHANGED <<seasons, games_df, eloVars, movVars, rollVars, predVars>>

NextBt == RunBacktest

SpecBt == InitBt /\ [][NextBt]_vars

\* C6: every evaluated fold has index i >= 2, trains only on rows whose
\* season is one of S0..Si, tests only on rows whose season is S(i+1); the
\* test season is not among the fold's training seasons and no row is in
\* both slices.
C6_FoldOrdering ==
    results # "none" =>
        \A n \in 1..Len(results) :
            LET f == results[n]
            IN  /\ f.i >= 2
                /\ \A k \in f.train_rows :
                       \E j \in 0..f.i : games_df[k].season = seasons[j + 1]
                /\ \A k \in f.test_rows :
                       games_df[k].season = seasons[f.i + 2]
                /\ \A j \in 0..f.i : seasons[j + 1] # seasons[f.i + 2]
                /\ f.train_rows \cap f.test_rows = {}

\* two folds were evaluated, the first with training rows, test rows and
\* rows of a still later season left out of both
C6_Witness ==
    /\ results # "none"
    /\ Len(results) >= 2
    /\ results[1].train_rows # {}
    /\ results[1].test_rows # {}
    /\ (results[1].train_rows \cup results[1].test_rows)
           # 1..Len(games_df)

\* the fold indices whose test season has at least one row in games_df
FoldsWithRows ==
    {i \in 2..(Len(seasons) - 2) :
        \E k \in 1..Len(games_df) : games_df[k].season = seasons[i + 2]}

\* C7: a test season without rows yields no result and no trained model,
\* every result tests exactly the rows games_df has for its season (none
\* added), and every fold whose test season has rows is evaluated: one
\* result per index i in 2..len(seasons)-2 whose season i+1 has a row.
C7_ZeroRowSeasonSkipped ==
    results # "none" =>
        /\ Len(results) = Cardinality(FoldsWithRows)
        /\ {results[n].i : n \in 1..Len(results)} = FoldsWithRows
        /\ fits = 3 * Len(results)
        /\ \A n \in 1..Len(results) :
               /\ results[n].n_games >= 1
               /\ results[n].n_games =
                      Cardinality({k \in 1..Len(games_df) :
                          games_df[k].season = results[n].test_season})
               /\ results[n].test_rows \subseteq 1..Len(games_df)

\* a run in which a test season had no rows and a later fold was evaluated
C7_Witness ==
    /\ results # "none"
    /\ \E i \in 2..(Len(seasons) - 2) :
           /\ i \notin FoldsWithRows
           /\ \E n \in 1..Len(results) : results[n].i > i

----------------------------------------------------------------------------
(* The per-day orchestrator: predict_today, predictor.py 81-186, and the *)
(* predictions table, db.py                                               *)

\* an optional column of a prediction row: missing, or holding x
None == <<>>

Some(x) == <<x>>

\* invocations per day, days, and games a day's scoreboard lists
MaxRuns == 2

MaxDays == 2

MaxSched == 2

GameIds == {1, 2}

\* the three teams meet in a cycle
HomeOf(g) == (g % 3) + 1

AwayOf(g) == ((g + 1) % 3) + 1

\* where processing a scheduled game raises, if it does
Faults == {"none", "inference", "persistence"}

\* the games a scoreboard may list
SchedEntries ==
    {[game_id |-> g, home_team_id |-> HomeOf(g), away_team_id |-> AwayOf(g),
      fault |-> f] : g \in GameIds, f \in Faults}

\* fetch_todays_scoreboard: a list of games with distinct ids
Schedules ==
    {s \in UNION {[1..n -> SchedEntries] : n \in 0..MaxSched} :
        \A a, b \in DOMAIN s : a # b => s[a].game_id # s[b].game_id}

\* NBA_TEAMS: the static team table, team id -> full_name
\* (data_fetcher.py 9)
NBA_TEAMS == << "Atlanta Hawks", "Boston Celtics", "Brooklyn Nets" >>

\* NBA_TEAMS.get(team_id, {}).get("full_name", abbr): the full name, or the
\* scoreboard's abbreviation for a team the table does not hold
full_name(team_id) ==
    IF team_id \in DOMAIN NBA_TEAMS THEN NBA_TEAMS[team_id] ELSE "???"

\* odds_key: "AWAY_FULL_NAME @ HOME_FULL_NAME"
OddsKey(game) ==
    full_name(game.away_team_id) \o " @ " \o full_name(game.home_team_id)

\* the key fetch_nba_odds files a listed game under: the feed's away_team,
\* " @ ", the feed's home_team (odds_fetcher.py 35-37)
FeedKey(g) == NBA_TEAMS[AwayOf(g)] \o " @ " \o NBA_TEAMS[HomeOf(g)]

\* the lines the feed quotes for a listed game
QuotedLine ==
    [spread |-> Some(-45), total |-> Some(2215), home_ml |-> Some(-180),
     away_ml |-> Some(155)]

\* what the .get calls give for a game the feed does not list
NoOdds ==
    [spread |-> None, total |-> None, home_ml |-> None, away_ml |-> None]

\* fetch_nba_odds: empty on a failed request, else the lines of the moment
\* for all the games or for the first only
OddsFeeds ==
    { [k \in {} |-> NoOdds],
      [k \in {FeedKey(g) : g \in GameIds} |-> QuotedLine],
      [k \in {FeedKey(1)} |-> QuotedLine] }

\* a plausible slip: a game the feed does not list takes the lines of a
\* game it lists
gameOddsBorrowed(odds, game) ==
    IF OddsKey(game) \in DOMAIN odds THEN odds[OddsKey(game)]
    ELSE IF DOMAIN odds # {} THEN odds[CHOOSE k \in DOMAIN odds : TRUE]
    ELSE NoOdds

\* odds.get(odds_key, {})
game_odds(odds, game) ==
    IF OddsKey(game) \in DOMAIN odds THEN odds[OddsKey(game)] ELSE NoOdds

\* the rows of one team played every second day
TeamRows(team_id, n) ==
    [k \in 1..n |->
        MakeRow(k, 2 * k, team_id,
                IF (k + team_id) % 2 = 0 THEN LossLine ELSE WinLine)]

\* the store on the first day: teams 1 and 3 with enough games, team 2
\* with n2
PredLogs(n2) ==
    TeamRows(1, MinGames) \o TeamRows(3, MinGames) \o TeamRows(2, n2)

\* the day after the last stored game
FirstDay == 2 * MinGames + 1

\* a - b and a + b on floats that may be NaN
FSubN(a, b) == IF a.nan \/ b.nan THEN NaN ELSE FSub(a, b)

FAddN(a, b) == IF a.nan \/ b.nan THEN NaN ELSE FAdd(a, b)

\* the position of a column in rolling_cols
ColIndex(name) ==
    CHOOSE c \in 1..Len(rolling_cols) : rolling_cols[c] = name

sum_cols == << "pts", "pts_allowed", "off_rating" >>

\* the features list built for one game (predictor.py 129-147)
FeatureVector(home_stats, away_stats, home_elo, away_elo) ==
    [c \in 1..Len(rolling_cols) |->
        FSubN(home_stats.roll[c], away_stats.roll[c])]
    \o [c \in 1..Len(sum_cols) |->
        FAddN(home_stats.roll[ColIndex(sum_cols[c])],
              away_stats.roll[ColIndex(sum_cols[c])])]
    \o << home_elo - away_elo,
          home_stats.rest_days - away_stats.rest_days,
          home_stats.win_streak - away_stats.win_streak,
          FSubN(home_stats.season_win_pct, away_stats.season_win_pct),
          home_stats.b2b, away_stats.b2b >>

\* predict_game: the fitted models are fixed functions of the features
predict_game(features) ==
    [home_win_prob |-> <<"win_model", features>>,
     spread        |-> <<"spread_model", features>>,
     total         |-> <<"total_model", features>>]

\* round(rating, 1): thousandths to tenths
Round1(x) == (x + 50) \div 100

\* the one element of a singleton set
The(S) == CHOOSE x \in S : TRUE

\* the prediction dict of one game (predictor.py 137-176) from the two
\* snapshots
PredictionFrom(game, day, odds, r, home_stats, away_stats) ==
    LET home_elo == get_rating(r, game.home_team_id)
        away_elo == get_rating(r, game.away_team_id)
        pred     == predict_game(FeatureVector(home_stats, away_stats,
                                               home_elo, away_elo))
        line     == game_odds(odds, game)
    IN  [game_id |-> game.game_id, game_date |-> day,
         home_team_id |-> game.home_team_id,
         away_team_id |-> game.away_team_id,
         pred_home_win_prob |-> pred.home_win_prob,
         pred_spread |-> pred.spread, pred_total |-> pred.total,
         vegas_spread |-> line.spread, vegas_total |-> line.total,
         vegas_home_ml |-> line.home_ml, vegas_away_ml |-> line.away_ml,
         home_elo |-> Round1(home_elo), away_elo |-> Round1(away_elo)]

\* the prediction dict of one game (predictor.py 115-176)
Prediction(game, day, odds, L, r, rev) ==
    The({PredictionFrom(game, day, odds, r, home_stats, away_stats) :
            home_stats \in
                {compute_team_rolling(L, game.home_team_id, day, rev)},
            away_stats \in
                {compute_team_rolling(L, game.away_team_id, day, rev)}})

\* a table row: the prediction with its id column
WithId(pred, id) ==
    [id |-> id, game_id |-> pred.game_id, game_date |-> pred.game_date,
     home_team_id |-> pred.home_team_id, away_team_id |-> pred.away_team_id,
     pred_home_win_prob |-> pred.pred_home_win_prob,
     pred_spread |-> pred.pred_spread, pred_total |-> pred.pred_total,
     vegas_spread |-> pred.vegas_spread, vegas_total |-> pred.vegas_total,
     vegas_home_ml |-> pred.vegas_home_ml,
     vegas_away_ml |-> pred.vegas_away_ml,
     home_elo |-> pred.home_elo, away_elo |-> pred.away_elo]

\* a row with its id column blanked
WithoutId(row) == [row EXCEPT !.id = 0]

\* a plausible slip: a plain INSERT into a table without the UNIQUE
\* constraint
insertPlain(P, id, pred) == P \cup {WithId(pred, id)}

\* INSERT OR REPLACE under UNIQUE(game_id): a stored row of the same game
\* is deleted, the new row takes a fresh id
insert_prediction(P, id, pred) ==
    {row \in P : row.game_id # pred.game_id} \cup {WithId(pred, id)}

RECURSIVE OrderByGameId(_)
OrderByGameId(S) ==
    IF S = {} THEN <<>>
    ELSE LET m == CHOOSE row \in S : \A q \in S : row.game_id <= q.game_id
         IN  <<m>> \o OrderByGameId(S \ {m})

\* get_predictions(date_str): the rows of that date, ORDER BY game_id
get_predictions(P, date_str) ==
    OrderByGameId({row \in P : row.game_date = date_str})

\* a plausible slip: the prediction is appended to the list but the insert
\* is left out
gameStepUnsaved(st, game, day, odds, L, r, rev) ==
    IF \/ ~compute_team_rolling(L, game.home_team_id, day, rev).ok
       \/ ~compute_team_rolling(L, game.away_team_id, day, rev).ok
    THEN st
    ELSE IF game.fault # "none"
    THEN [st EXCEPT !.raised = TRUE]
    ELSE [st EXCEPT
             !.returned = Append(@, Prediction(game, day, odds, L, r, rev)),
             !.inferences = @ + 1]

\* one pass of the loop body (predictor.py 110-184) for one game
GameStep(st, game, day, odds, L, r, rev) ==
    IF \/ ~compute_team_rolling(L, game.home_team_id, day, rev).ok
       \/ ~compute_team_rolling(L, game.away_team_id, day, rev).ok
    THEN st
    ELSE IF game.fault = "inference"
    THEN [st EXCEPT !.raised = TRUE]
    ELSE IF game.fault = "persistence"
    THEN [st EXCEPT !.raised = TRUE, !.inferences = @ + 1]
    ELSE LET prediction == Prediction(game, day, odds, L, r, rev)
         IN  [st EXCEPT
                 !.table = insert_prediction(@, st.next_id, prediction),
                 !.next_id = @ + 1,
                 !.returned = Append(@, prediction),
                 !.inferences = @ + 1,
                 !.writes = @ + 1]

RECURSIVE GameLoop(_, _, _, _, _, _, _, _)
\* the loop over games from position k; an exception ends it
GameLoop(st, games, k, day, odds, L, r, rev) ==
    IF k > Len(games) \/ st.raised THEN st
    ELSE The({GameLoop(nxt, games, k + 1, day, odds, L, r, rev) :
                 nxt \in {GameStep(st, games[k], day, odds, L, r, rev)}})

\* what an invocation that ran the loop hands back, st being the state the
\* loop ended in
LoopOutcome(st) ==
    [path |-> IF st.raised THEN "raised" ELSE "computed",
     table |-> st.table, next_id |-> st.next_id,
     returned |-> IF st.raised THEN <<>> ELSE st.returned,
     fetches |-> 2, inferences |-> st.inferences, writes |-> st.writes]

\* predict_today from the scoreboard fetch on (predictor.py 90-186)
ComputePath(P, id, day, games, odds, L, r, rev) ==
    IF games = <<>>
    THEN [path |-> "no_games", table |-> P, next_id |-> id,
          returned |-> <<>>, fetches |-> 1, inferences |-> 0, writes |-> 0]
    ELSE The({LoopOutcome(st) :
                 st \in {GameLoop([table |-> P, next_id |-> id,
                                   returned |-> <<>>, raised |-> FALSE,
                                   inferences |-> 0, writes |-> 0],
                                  games, 1, day, odds, L, r, rev)}})

\* a plausible slip: the check for stored predictions is left out
predictTodayNoCheck(P, id, day, games, odds, L, r, rev) ==
    ComputePath(P, id, day, games, odds, L, r, rev)

\* predict_today on table P with next id, the clock at day, the scoreboard
\* listing games, the odds feed giving odds, store L and rating file r
predict_today(P, id, day, games, odds, L, r, rev) ==
    LET existing == get_predictions(P, day)
    IN  IF existing # <<>>
        THEN [path |-> "existing", table |-> P, next_id |-> id,
              returned |-> existing, fetches |-> 0, inferences |-> 0,
              writes |-> 0]
        ELSE ComputePath(P, id, day, games, odds, L, r, rev)

InitPredict ==
    /\ IdleMov
    /\ IdleBt
    /\ ratings = update(EmptyRatings, 1, 3, 110, 100)
    /\ history = <<>>
    /\ last = NoCall
    /\ logs \in {PredLogs(n2) : n2 \in {MinGames - 1, MinGames}}
    /\ team_rolling = <<>>
    /\ built_at = -1
    /\ tie_rev = FALSE
    /\ snapshot = <<>>
    /\ today = FirstDay
    /\ schedule \in Schedules
    /\ predictions = {}
    /\ next_id = 1
    /\ runs_today = 0
    /\ compute_runs = 0
    /\ last_run = NoRun
    /\ results_table = {}

\* one invocation of predict_today
PredictToday ==
    /\ runs_today < MaxRuns
    /\ \E odds \in OddsFeeds :
          \E res \in {predict_today(predictions, next_id, today, schedule,
                                    odds, logs, ratings, tie_rev)} :
              /\ predictions' = res.table
              /\ next_id' = res.next_id
              /\ last_run' = [path |-> res.path, returned |-> res.returned,
                              fetches |-> res.fetches,
                              inferences |-> res.inferences,
                              writes |-> res.writes,
                              odds |-> IF res.fetches = 2 THEN odds
                                       ELSE <<>>]
              /\ compute_runs' =
                     IF res.path = "existing" THEN compute_runs
                     ELSE compute_runs + 1
    /\ runs_today' = runs_today + 1
    /\ UNCHANGED <<today, schedule, results_table, eloVars, movVars, rollVars,
                   btVars>>

\* midnight: the clock moves to the next date, with its own scoreboard
NextDay ==
    /\ today < FirstDay + MaxDays - 1
    /\ today' = today + 1
    /\ schedule' \in Schedules
    /\ runs_today' = 0
    /\ compute_runs' = 0
    /\ last_run' = NoRun
    /\ UNCHANGED <<predictions, next_id, results_table, eloVars, movVars,
                   rollVars, btVars>>

NextPredict ==
    \/ PredictToday
    \/ NextDay

SpecPredict == InitPredict /\ [][NextPredict]_vars

\* the persisted predictions, id column aside
Persisted(P) == {WithoutId(row) : row \in P}

NoDuplicateRows(P) ==
    \A a, b \in P : a.game_id = b.game_id => a = b

\* both teams of a scheduled game have enough games before today
SufficientHistory(game) ==
    /\ compute_team_rolling(logs, game.home_team_id, today, tie_rev).ok
    /\ compute_team_rolling(logs, game.away_team_id, today, tie_rev).ok

C9_AtMostOnce ==
    [][ runs_today' = runs_today + 1 =>
            /\ compute_runs' <= 1
            /\ get_predictions(predictions, today) # <<>> =>
                   /\ predictions' = predictions
                   /\ last_run'.returned = get_predictions(predictions, today)
                   /\ last_run'.fetches = 0
                   /\ last_run'.inferences = 0
                   /\ last_run'.writes = 0 ]_vars

\* C10: when processing one game of the batch raised, every scheduled game
\* that has sufficient history and does not itself fail has its prediction
\* persisted by that run.
C10_FailureIsolation ==
    last_run.path = "raised" =>
        \A k \in 1..Len(schedule) :
            (schedule[k].fault = "none" /\ SufficientHistory(schedule[k]))
            => \E row \in predictions :
                   /\ row.game_id = schedule[k].game_id
                   /\ row.game_date = today

----------------------------------------------------------------------------
(* build_game_features_df as a whole (feature_engineer.py 10-176), fed by *)
(* the ingestion of finished games and followed by predict_today          *)

\* finished games a store may hold
MaxGames == 4

\* a loss with made threes: every percentage present
LossLineFull == [LossLine EXCEPT !.fg3_pct = Frac(300, 1)]

\* one row of game_logs with its season and is_home columns
\* (data_fetcher.py 27-52)
GameLog(game_id, game_date, season, team_id, is_home, line) ==
    [game_id |-> game_id, game_date |-> game_date, season |-> season,
     team_id |-> team_id, is_home |-> is_home,
     wl |-> line.wl, pts |-> line.pts, plus_minus |-> line.plus_minus,
     fga |-> line.fga, oreb |-> line.oreb, tov |-> line.tov,
     fta |-> line.fta, fg_pct |-> line.fg_pct, fg3_pct |-> line.fg3_pct,
     ft_pct |-> line.ft_pct, reb |-> line.reb, ast |-> line.ast]

\* the list feature_cols as build_game_features_df appends to it
\* (feature_engineer.py 143-166)
feature_cols ==
    [c \in 1..Len(rolling_cols) |-> "diff_" \o rolling_cols[c]]
    \o [c \in 1..3 |-> "sum_" \o << "pts", "pts_allowed", "off_rating" >>[c]]
    \o << "elo_diff", "diff_rest_days", "diff_win_streak",
          "diff_season_win_pct", "home_b2b", "away_b2b" >>

\* the feature columns of one merged row, in the order of feature_cols
BuildFeatureRow(home, away, home_elo, away_elo) ==
    [c \in 1..Len(rolling_cols) |-> FSubN(home.roll[c], away.roll[c])]
    \o << FAddN(home.roll[ColIndex("pts")], away.roll[ColIndex("pts")]),
          FAddN(home.roll[ColIndex("pts_allowed")],
                away.roll[ColIndex("pts_allowed")]),
          FAddN(home.roll[ColIndex("off_rating")],
                away.roll[ColIndex("off_rating")]) >>
    \o << home_elo - away_elo,
          home.rest_days - away.rest_days,
          home.win_streak - away.win_streak,
          FSubN(home.season_win_pct, away.season_win_pct),
          home.b2b, away.b2b >>

\* the positions of feature_cols that hold floats and so may be NaN
FloatFeatures ==
    {c \in 1..Len(feature_cols) :
        \/ c <= Len(rolling_cols) + 3
        \/ feature_cols[c] = "diff_season_win_pct"}

\* the engine call records of the replay
ResetRecord ==
    [op |-> "reset", home |-> 0, away |-> 0, home_pts |-> 0, away_pts |-> 0]

UpdateRecord(home_id, away_id, home_pts, away_pts) ==
    [op |-> "update", home |-> home_id, away |-> away_id,
     home_pts |-> home_pts, away_pts |-> away_pts]

\* home_games and the index of away_games (feature_engineer.py 93-94)
home_games(L, rev) == SortIdx(L, {i \in 1..Len(L) : L[i].is_home = 1}, rev)

away_rows(L, game_id) ==
    {j \in 1..Len(L) : L[j].is_home = 0 /\ L[j].game_id = game_id}

\* the replay before its first game
ReplayStart ==
    [elo |-> EmptyRatings, current_season |-> None, calls |-> <<>>,
     elo_home_col |-> <<>>, elo_away_col |-> <<>>]

\* a plausible slip: the test for the first season is left out, the engine
\* is reset before the first game too
seasonCheckNoFirst(st, season) ==
    IF Some(season) # st.current_season
    THEN [st EXCEPT !.elo = season_reset(@),
                    !.calls = Append(@, ResetRecord),
                    !.current_season = Some(season)]
    ELSE st

\* the season check of the replay loop (feature_engineer.py 101-104)
SeasonCheck(st, season) ==
    IF Some(season) # st.current_season
    THEN [st EXCEPT
             !.elo = IF st.current_season # None THEN season_reset(@) ELSE @,
             !.calls = IF st.current_season # None
                       THEN Append(@, ResetRecord) ELSE @,
             !.current_season = Some(season)]
    ELSE st

\* a plausible slip: the ratings are recorded after the game's own result
\* was applied
recordAfterUpdate(st, L, i) ==
    IF away_rows(L, L[i].game_id) = {} THEN st
    ELSE LET j == CHOOSE a \in away_rows(L, L[i].game_id) :
                     \A b \in away_rows(L, L[i].game_id) : a <= b
             home_id == L[i].team_id
             away_id == L[j].team_id
             after   == update(st.elo, home_id, away_id, L[i].pts, L[j].pts)
         IN  [st EXCEPT
                 !.elo_home_col =
                     Append(@, <<L[i].game_id, get_rating(after, home_id)>>),
                 !.elo_away_col =
                     Append(@, <<L[i].game_id, get_rating(after, away_id)>>),
                 !.elo = after,
                 !.calls = Append(@, UpdateRecord(home_id, away_id,
                                                  L[i].pts, L[j].pts))]

\* the rest of the loop body for home row i (feature_engineer.py 106-121)
RecordAndUpdate(st, L, i) ==
    IF away_rows(L, L[i].game_id) = {} THEN st
    ELSE LET j == CHOOSE a \in away_rows(L, L[i].game_id) :
                     \A b \in away_rows(L, L[i].game_id) : a <= b
             home_id == L[i].team_id
             away_id == L[j].team_id
         IN  [st EXCEPT
                 !.elo_home_col =
                     Append(@, <<L[i].game_id, get_rating(st.elo, home_id)>>),
                 !.elo_away_col =
                     Append(@, <<L[i].game_id, get_rating(st.elo, away_id)>>),
                 !.elo = update(@, home_id, away_id, L[i].pts, L[j].pts),
                 !.calls = Append(@, UpdateRecord(home_id, away_id,
                                                  L[i].pts, L[j].pts))]

\* one pass of the replay loop, for home row i (feature_engineer.py 97-121)
EloReplayStep(st, L, i) ==
    The({RecordAndUpdate(st1, L, i) :
            st1 \in {SeasonCheck(st, L[i].season)}})

RECURSIVE EloReplay(_, _, _, _)
\* the replay loop from position k of the home rows hg
EloReplay(st, L, hg, k) ==
    IF k > Len(hg) THEN st
    ELSE The({EloReplay(nxt, L, hg, k + 1) :
                 nxt \in {EloReplayStep(st, L, hg[k])}})

\* games["game_id"].map(col): the value recorded last for the game
MapCol(col, game_id) ==
    LET ks == {k \in 1..Len(col) : col[k][1] = game_id}
    IN  col[CHOOSE k \in ks : \A m \in ks : m <= k][2]

\* the snapshot the team loop attached to row i of the store
SnapOfRow(T, L, i) ==
    LET tf == T[L[i].team_id]
    IN  tf[CHOOSE k \in 1..Len(tf) : tf[k].rowid = i].snap

\* the merged row of home row i and away row j with its features and targets
\* (feature_engineer.py 133-171)
GameRow(T, L, st, i, j) ==
    [game_id |-> L[i].game_id, game_date |-> L[i].game_date,
     season |-> L[i].season,
     home_team_id |-> L[i].team_id, away_team_id |-> L[j].team_id,
     features |-> BuildFeatureRow(SnapOfRow(T, L, i), SnapOfRow(T, L, j),
                                  MapCol(st.elo_home_col, L[i].game_id),
                                  MapCol(st.elo_away_col, L[i].game_id)),
     home_win |-> IF L[i].wl = "W" THEN 1 ELSE 0,
     margin |-> L[i].pts - L[j].pts,
     total_pts |-> L[i].pts + L[j].pts]

RECURSIVE AscendingSeq(_)
\* the numbers of S in ascending order
AscendingSeq(S) ==
    IF S = {} THEN <<>>
    ELSE LET m == CHOOSE a \in S : \A b \in S : a <= b
         IN  <<m>> \o AscendingSeq(S \ {m})

\* the rows the inner merge gives for home row i: one per away row of the
\* same game_id, game_date and season
MergeRowsOf(T, L, st, i) ==
    LET js == AscendingSeq({j \in away_rows(L, L[i].game_id) :
                               /\ L[j].game_date = L[i].game_date
                               /\ L[j].season = L[i].season})
    IN  [n \in 1..Len(js) |-> GameRow(T, L, st, i, js[n])]

RECURSIVE MergeFrom(_, _, _, _, _)
\* home_df.merge(away_df, how="inner") from position k of the home rows
MergeFrom(T, L, st, hg, k) ==
    IF k > Len(hg) THEN <<>>
    ELSE MergeRowsOf(T, L, st, hg[k]) \o MergeFrom(T, L, st, hg, k + 1)

\* a plausible slip: the rows with missing features are kept
dropnaKeepAll(games) == games

\* games.dropna(subset=feature_cols)
dropna(games) ==
    SelectSeq(games,
              LAMBDA g : \A c \in FloatFeatures : ~g.features[c].nan)

\* build_game_features_df on the store L: team_rolling, the engine after the
\* replay with the calls made on it, and the table returned
build_game_features_df(L, rev) ==
    The({[team_rolling |-> T, elo |-> st.elo, calls |-> st.calls,
          games |-> dropna(MergeFrom(T, L, st, home_games(L, rev), 1))] :
            T \in {build_team_rolling(L, rev)},
            st \in {EloReplay(ReplayStart, L, home_games(L, rev), 1)}})

----------------------------------------------------------------------------
(* The store filled game by game, built into the training table, and read *)
(* by predict_today on the day after the last stored game                 *)

\* the (home, away) matchups of the finished games
Matchups == { <<1, 2>>, <<3, 1>> }

\* the (home, away) box scores of a finished game: a home win with every
\* percentage present, or an away win in which the home side made no three
Outcomes == { <<WinLine, LossLineFull>>, <<LossLine, WinLine>> }

\* the game ids in store L
GamesIn(L) == {L[i].game_id : i \in 1..Len(L)}

\* the season label of the last stored game
LastSeason == IF logs = <<>> THEN 1 ELSE logs[Len(logs)].season

\* a scoreboard entry whose processing does not raise
Fixture(game_id, home_id, away_id) ==
    [game_id |-> game_id, home_team_id |-> home_id, away_team_id |-> away_id,
     fault |-> "none"]

\* the scoreboards of the day after: a newcomer's game listed before a game
\* of two known teams, or a single game
StoredSchedules ==
    { << Fixture(101, 3, 4), Fixture(102, 1, 2) >>,
      << Fixture(101, 1, 3) >> }

\* an odds feed without entries
EmptyFeed == [k \in {} |-> NoOdds]

InitPipeline ==
    /\ IdleElo
    /\ IdleMov
    /\ IdleRoll
    /\ IdleBt
    /\ IdlePred

\* insert_game_logs with the two rows of a game played the day after the
\* last stored one, in the running season or the next
IngestGame(m, o, season) ==
    /\ runs_today = 0
    /\ Cardinality(GamesIn(logs)) < MaxGames
    /\ LET g == Cardinality(GamesIn(logs)) + 1
       IN  logs' = logs \o << GameLog(g, g, season, m[1], 1, o[1]),
                              GameLog(g, g, season, m[2], 0, o[2]) >>
    /\ UNCHANGED <<team_rolling, built_at, tie_rev, snapshot, eloVars,
                   movVars, btVars, predVars>>

\* build_game_features_df on the store as it is; elo.save() leaves the
\* ratings of the replay in the rating file
BuildGameFeatures ==
    /\ logs # <<>>
    /\ built_at # Len(logs)
    /\ runs_today = 0
    /\ \E res \in {build_game_features_df(logs, tie_rev)} :
          /\ team_rolling' = res.team_rolling
          /\ ratings' = res.elo
          /\ history' = res.calls
          /\ games_df' = res.games
    /\ built_at' = Len(logs)
    /\ UNCHANGED <<logs, tie_rev, snapshot, last, movVars, seasons, results,
                   fits, predVars>>

\* a plausible slip: the prediction run feeds its first scheduled game to
\* the engine and saves the ratings
predictStoredSaving ==
    /\ built_at = Len(logs)
    /\ runs_today = 0
    /\ \E s \in StoredSchedules :
          \E res \in {predict_today(predictions, next_id, LastDate + 1, s,
                                    EmptyFeed, logs, ratings, tie_rev)} :
              /\ today' = LastDate + 1
              /\ schedule' = s
              /\ predictions' = res.table
              /\ next_id' = res.next_id
              /\ last_run' = [path |-> res.path, returned |-> res.returned,
                              fetches |-> res.fetches,
                              inferences |-> res.inferences,
                              writes |-> res.writes,
                              odds |-> IF res.fetches = 2 THEN EmptyFeed
                                       ELSE <<>>]
              /\ ratings' = update(ratings, s[1].home_team_id,
                                   s[1].away_team_id, 110, 100)
    /\ runs_today' = 1
    /\ compute_runs' = 1
    /\ UNCHANGED <<results_table, history, last, movVars, rollVars, btVars>>

\* predict_today on the day after the last stored game, the table built
\* and the models trained
PredictStored ==
    /\ built_at = Len(logs)
    /\ runs_today = 0
    /\ \E s \in StoredSchedules :
          \E res \in {predict_today(predictions, next_id, LastDate + 1, s,
                                    EmptyFeed, logs, ratings, tie_rev)} :
              /\ today' = LastDate + 1
              /\ schedule' = s
              /\ predictions' = res.table
              /\ next_id' = res.next_id
              /\ last_run' = [path |-> res.path, returned |-> res.returned,
                              fetches |-> res.fetches,
                              inferences |-> res.inferences,
                              writes |-> res.writes,
                              odds |-> IF res.fetches = 2 THEN EmptyFeed
                                       ELSE <<>>]
    /\ runs_today' = 1
    /\ compute_runs' = 1
    /\ UNCHANGED <<results_table, eloVars, movVars, rollVars, btVars>>

\* the finished games: either result when team 1 is at home, a home win
\* when it visits
FinishedGames ==
    {g \in Matchups \X Outcomes : g[1][1] = 1 \/ g[2][1].wl = "W"}

NextPipeline ==
    \/ \E g \in FinishedGames,
          season \in (IF logs = <<>> THEN {1}
                      ELSE {LastSeason, LastSeason + 1}) :
          IngestGame(g[1], g[2], season)
    \/ BuildGameFeatures
    \/ PredictStored

SpecPipeline == InitPipeline /\ [][NextPipeline]_vars

\* the number of games of team t in L dated before date d
GamesBefore(L, t, d) ==
    Cardinality({i \in 1..Len(L) : L[i].team_id = t /\ L[i].game_date < d})

\* every game of team t in L dated before date d has all its percentages
CompleteBefore(L, t, d) ==
    \A i \in 1..Len(L) :
        (L[i].team_id = t /\ L[i].game_date < d)
        => ~L[i].fg_pct.nan /\ ~L[i].fg3_pct.nan /\ ~L[i].ft_pct.nan

\* the game ids of the training table
TableGames == {games_df[n].game_id : n \in 1..Len(games_df)}

\* the game ids of the prediction rows stored for today
StoredToday == {row.game_id : row \in {p \in predictions : p.game_date = today}}

\* the game ids of the predictions the last invocation returned
ReturnedGames ==
    {last_run.returned[n].game_id : n \in 1..Len(last_run.returned)}

SeasonsInOrder ==
    LET hg == home_games(logs, tie_rev)
    IN  [k \in 1..Len(hg) |-> logs[hg[k]].season]

\* the number of update calls among the first p calls of the replay
UpdatesUpTo(p) == Cardinality({q \in 1..p : history[q].op = "update"})

\* the resets among the calls of the replay
ResetsAt == {p \in 1..Len(history) : history[p].op = "reset"}

\* C17: the batch replay calls season_reset exactly once at each change of
\* season label between consecutive games, never before the first game and
\* never between two games of one season; the resets number the distinct
\* seasons minus one, and the ratings left are those of the calls made.
C17_SeasonResetTiming ==
    (logs # <<>> /\ built_at = Len(logs)) =>
        /\ UpdatesUpTo(Len(history)) = Len(SeasonsInOrder)
        /\ Cardinality(ResetsAt) = Cardinality(Range(SeasonsInOrder)) - 1
        /\ \A p \in 1..Len(history) :
               LET n == UpdatesUpTo(p)
               IN  IF history[p].op = "reset"
                   THEN /\ n >= 1
                        /\ p < Len(history)
                        /\ history[p + 1].op = "update"
                        /\ SeasonsInOrder[n] # SeasonsInOrder[n + 1]
                   ELSE (p > 1 /\ history[p - 1].op = "update")
                        => SeasonsInOrder[n - 1] = SeasonsInOrder[n]
        /\ ratings = Replay(history)

\* a replay over three seasons: two resets, and two games of one season in
\* a row
C17_Witness ==
    /\ built_at = Len(logs)
    /\ Cardinality(ResetsAt) = 2
    /\ \E p \in 1..(Len(history) - 1) :
           history[p].op = "update" /\ history[p + 1].op = "update"

----------------------------------------------------------------------------
(* predict_today with its external feeds and model files: predictor.py    *)
(* 90-104, data_fetcher.py 107-138, odds_fetcher.py 10-65, model.py 64-75 *)

\* what the scoreboard endpoint does when asked: it answers, or the request
\* fails (no try around ScoreboardV2() or the frame accessors)
ScoreboardStates == {"ok", "unreachable"}

\* what the odds endpoint does: no key configured, the request fails, the
\* body is not the expected JSON list, or it answers
OddsStates == {"no_key", "request_failed", "malformed", "ok"}

\* whether the three model files exist
ModelFiles == {"present", "missing"}

\* fetch_todays_scoreboard: the games, or the exception of the request
fetch_todays_scoreboard(state, games) ==
    IF state = "ok" THEN [raised |-> FALSE, games |-> games]
    ELSE [raised |-> TRUE, games |-> <<>>]

\* fetch_nba_odds: {} without a key and when requests.get or
\* raise_for_status raises inside the try; resp.json() and the parsing loop
\* run outside the try
fetch_nba_odds(state, feed) ==
    CASE state = "no_key"         -> [raised |-> FALSE, odds |-> EmptyFeed]
      [] state = "request_failed" -> [raised |-> FALSE, odds |-> EmptyFeed]
      [] state = "malformed"      -> [raised |-> TRUE, odds |-> EmptyFeed]
      [] OTHER                    -> [raised |-> FALSE, odds |-> feed]

\* load_models: raises when a model file is missing
load_models(files) == [raised |-> files = "missing"]

\* an invocation ended by an exception raised before the loop
RaisedBefore(P, id, what, fetches) ==
    [path |-> what, table |-> P, next_id |-> id, returned |-> <<>>,
     fetches |-> fetches, inferences |-> 0, writes |-> 0]

\* predict_today with the feeds and files in the given states
predict_today_live(P, id, day, board, games, files, market, feed, L, r, rev) ==
    LET existing == get_predictions(P, day)
        sb       == fetch_todays_scoreboard(board, games)
        odds     == fetch_nba_odds(market, feed)
    IN  IF existing # <<>>
        THEN [path |-> "existing", table |-> P, next_id |-> id,
              returned |-> existing, fetches |-> 0, inferences |-> 0,
              writes |-> 0]
        ELSE IF sb.raised THEN RaisedBefore(P, id, "scoreboard_raised", 1)
        ELSE IF sb.games = <<>>
        THEN ComputePath(P, id, day, sb.games, odds.odds, L, r, rev)
        ELSE IF load_models(files).raised
        THEN RaisedBefore(P, id, "no_model", 1)
        ELSE IF odds.raised THEN RaisedBefore(P, id, "odds_raised", 2)
        ELSE ComputePath(P, id, day, sb.games, odds.odds, L, r, rev)

\* one invocation of predict_today, the world in any of its states
PredictTodayLive ==
    /\ runs_today < MaxRuns
    /\ \E sb_state \in ScoreboardStates, files \in ModelFiles,
          odds_state \in OddsStates, feed \in OddsFeeds :
          \E res \in {predict_today_live(predictions, next_id, today,
                                         sb_state, schedule, files,
                                         odds_state, feed, logs, ratings,
                                         tie_rev)} :
              /\ predictions' = res.table
              /\ next_id' = res.next_id
              /\ last_run' = [path |-> res.path, returned |-> res.returned,
                              fetches |-> res.fetches,
                              inferences |-> res.inferences,
                              writes |-> res.writes,
                              odds |->
                                  IF /\ res.fetches = 2
                                     /\ res.path # "odds_raised"
                                  THEN fetch_nba_odds(odds_state, feed).odds
                                  ELSE <<>>]
              /\ compute_runs' =
                     IF res.path = "existing" THEN compute_runs
                     ELSE compute_runs + 1
    /\ runs_today' = runs_today + 1
    /\ UNCHANGED <<today, schedule, results_table, eloVars, movVars, rollVars,
                   btVars>>

NextFeeds ==
    \/ PredictTodayLive
    \/ NextDay

SpecFeeds == InitPredict /\ [][NextFeeds]_vars

\* C12: no invocation of predict_today ends in an exception raised by the
\* scoreboard feed or by the odds feed; an invocation raises before the loop
\* only when the model files are missing.
C12_FeedFailureTolerated ==
    last_run.path \notin {"scoreboard_raised", "odds_raised"}

----------------------------------------------------------------------------
(* The order of the features on the training and on the serving path *)

\* the list get_feature_names() returns (feature_engineer.py 179-192)
get_feature_names ==
    << "diff_off_rating", "diff_def_rating", "diff_net_rating",
       "diff_fg_pct", "diff_fg3_pct", "diff_ft_pct",
       "diff_reb", "diff_ast", "diff_tov", "diff_pts", "diff_pts_allowed",
       "sum_pts", "sum_pts_allowed", "sum_off_rating",
       "elo_diff", "diff_rest_days", "diff_win_streak",
       "diff_season_win_pct", "home_b2b", "away_b2b" >>

\* the rolling_cols literal of predict_today (predictor.py 123-127)
predictor_rolling_cols ==
    << "off_rating", "def_rating", "net_rating", "fg_pct", "fg3_pct",
       "ft_pct", "reb", "ast", "tov", "pts", "pts_allowed" >>

\* the field predict_today appends at each position of its features list
\* (predictor.py 129-147)
predictor_fields ==
    [c \in 1..Len(predictor_rolling_cols) |->
        "diff_" \o predictor_rolling_cols[c]]
    \o [c \in 1..Len(sum_cols) |-> "sum_" \o sum_cols[c]]
    \o << "elo_diff", "diff_rest_days", "diff_win_streak",
          "diff_season_win_pct", "home_b2b", "away_b2b" >>

\* the places that spell the order out, and the path that reads each:
\* train_model.py takes feature_cols from build_game_features_df,
\* predict_today appends by its own literals, and the list it fetches from
\* get_feature_names() is assigned and never read
OrderDefinitions ==
    { [site |-> "feature_engineer.build_game_features_df",
       order |-> feature_cols, read_by |-> {"training"}],
      [site |-> "feature_engineer.get_feature_names",
       order |-> get_feature_names, read_by |-> {}],
      [site |-> "predictor.predict_today",
       order |-> predictor_fields, read_by |-> {"serving"}] }

\* the features list handed to predict_game for a returned prediction
ServedVector(p) == p.pred_home_win_prob[2]

\* the columns the training table would hold for the same two snapshots
TrainedVector(p) ==
    BuildFeatureRow(
        compute_team_rolling(logs, p.home_team_id, today, tie_rev),
        compute_team_rolling(logs, p.away_team_id, today, tie_rev),
        get_rating(ratings, p.home_team_id),
        get_rating(ratings, p.away_team_id))

\* the three spellings agree, and every vector served has the length of
\* the list and at each position the value the training column holds
SameFeatureOrder ==
    /\ \A a, b \in OrderDefinitions : a.order = b.order
    /\ Len(get_feature_names) = 20
    /\ \A n \in 1..Len(last_run.returned) :
           /\ Len(ServedVector(last_run.returned[n])) = Len(get_feature_names)
           /\ ServedVector(last_run.returned[n])
                  = TrainedVector(last_run.returned[n])

\* C13: whenever predict_today has passed a vector to the models, it has
\* the length of get_feature_names() and of feature_cols and the same field
\* at every position, and both paths read that order from one single
\* definition.
C13_SharedFeatureOrder ==
    Len(last_run.returned) > 0 =>
        /\ SameFeatureOrder
        /\ \E d \in OrderDefinitions : d.read_by = {"training", "serving"}

----------------------------------------------------------------------------
(* One team's history read by the batch loop and by the query *)

\* games in a history
MaxHist == 6

\* the histories: every sequence of outcomes up to MaxHist games, the most
\* recent last
Histories == UNION {[1..n -> {"W", "L"}] : n \in 0..MaxHist}

\* the store holding history h of team 1, a game every second day
HistLogs(h) ==
    [k \in 1..Len(h) |->
        MakeRow(k, 2 * k, 1, IF h[k] = "W" THEN WinLine ELSE LossLine)]

InitHist ==
    /\ IdleElo
    /\ IdleMov
    /\ IdleBt
    /\ IdlePred
    /\ logs \in {HistLogs(h) : h \in Histories}
    /\ team_rolling = <<>>
    /\ built_at = -1
    /\ tie_rev = FALSE
    /\ snapshot = <<>>

\* a call of _compute_team_rolling(team_id, before_date) on the store
ComputeRolling(team_id, before_date) ==
    /\ snapshot' =
           << [team_id |-> team_id, before_date |-> before_date,
               stats |-> compute_team_rolling(logs, team_id, before_date,
                                              tie_rev)] >>
    /\ UNCHANGED <<logs, team_rolling, built_at, tie_rev, eloVars, movVars,
                   btVars, predVars>>

NextHist ==
    \/ BuildFeatures
    \/ \E D \in CutoffDates : ComputeRolling(1, D)

SpecHist == InitHist /\ [][NextHist]_vars

\* the outcomes of team t's stored games dated before d, oldest first
OutcomesBefore(t, d) ==
    LET idx == get_team_game_logs(logs, t, d, tie_rev)
    IN  [k \in 1..Len(idx) |-> logs[idx[k]].wl]

\* the number of most recent outcomes of h equal to the last one
RunLength(h) ==
    CHOOSE m \in 1..Len(h) :
        /\ \A k \in (Len(h) - m + 1)..Len(h) : h[k] = h[Len(h)]
        /\ m = Len(h) \/ h[Len(h) - m] # h[Len(h)]

\* the streak the claim gives a non-empty history h
SignedRun(h) == IF h[Len(h)] = "W" THEN RunLength(h) ELSE -RunLength(h)

\* streak s is the one of history h, and is +1 or -1 right after a flip
IsStreakOf(s, h) ==
    /\ s = SignedRun(h)
    /\ (Len(h) >= 2 /\ h[Len(h)] # h[Len(h) - 1]) => Abs(s) = 1
    /\ h = << "L", "L", "W", "W" >> => s = 2

\* C14: for every game with at least one earlier game, the batch row's
\* win_streak has the sign of the most recent earlier outcome and the length
\* of the run of that outcome, +1 or -1 right after a flip, 2 after
\* [L, L, W, W]; and so has the win_streak of every snapshot the query
\* returns.
C14_Streak ==
    /\ (built_at = Len(logs) /\ logs # <<>>) =>
           \A t \in DOMAIN team_rolling :
               \A k \in 2..Len(team_rolling[t]) :
                   IsStreakOf(team_rolling[t][k].snap.win_streak,
                              OutcomesBefore(t, team_rolling[t][k].game_date))
    /\ (snapshot # <<>> /\ snapshot[1].stats.ok) =>
           IsStreakOf(snapshot[1].stats.win_streak,
                      OutcomesBefore(snapshot[1].team_id,
                                     snapshot[1].before_date))

\* the batch rows are built and a query after [L, L, W, W] returned 2
C14_Witness ==
    /\ built_at = Len(logs)
    /\ snapshot # <<>>
    /\ OutcomesBefore(snapshot[1].team_id, snapshot[1].before_date)
           = << "L", "L", "W", "W" >>
    /\ snapshot[1].stats.win_streak = 2
    /\ \E k \in 1..Len(team_rolling[1]) :
           /\ team_rolling[1][k].game_date = snapshot[1].before_date
           /\ team_rolling[1][k].snap.win_streak = 2

\* wins over games among the outcomes h, 0.5 for none
WinFraction(h) ==
    IF Len(h) = 0 THEN Frac(1, 2)
    ELSE Frac(Cardinality({k \in 1..Len(h) : h[k] = "W"}), Len(h))

\* C15: the batch row of every game holds as season_win_pct the wins over
\* the games of the team dated strictly before the game, 0.5 when there is
\* none, the game itself not counted; and so does every snapshot the query
\* returns for its cutoff.
C15_SeasonWinFraction ==
    /\ (built_at = Len(logs) /\ logs # <<>>) =>
           \A t \in DOMAIN team_rolling :
               \A k \in 1..Len(team_rolling[t]) :
                   team_rolling[t][k].snap.season_win_pct
                       = WinFraction(OutcomesBefore(
                                         t, team_rolling[t][k].game_date))
    /\ (snapshot # <<>> /\ snapshot[1].stats.ok) =>
           snapshot[1].stats.season_win_pct
               = WinFraction(OutcomesBefore(snapshot[1].team_id,
                                            snapshot[1].before_date))

\* a first game held 0.5, a lost game after three wins held 1, and a query
\* at the date of a game returned 3/4 although the game was won
C15_Witness ==
    /\ built_at = Len(logs)
    /\ Len(team_rolling[1]) >= 5
    /\ team_rolling[1][1].snap.season_win_pct = Frac(1, 2)
    /\ logs[4].wl = "L"
    /\ team_rolling[1][4].snap.season_win_pct = Frac(1, 1)
    /\ snapshot # <<>>
    /\ snapshot[1].before_date = logs[5].game_date
    /\ logs[5].wl = "W"
    /\ snapshot[1].stats.season_win_pct = Frac(3, 4)

----------------------------------------------------------------------------
(* The sum of the ratings over the calls *)

RECURSIVE SumOver(_, _)
\* the sum of r[t] - initial over the teams S
SumOver(r, S) ==
    IF S = {} THEN 0
    ELSE LET t == CHOOSE x \in S : TRUE
         IN  (r[t] - ELO_INITIAL * Milli) + SumOver(r, S \ {t})

\* the sum over all teams of rating - initial; a team not in the map is at
\* the initial rating and adds nothing
Aggregate(r) == SumOver(r, DOMAIN r)

\* every update among the calls h was between two distinct teams
DistinctTeamsOnly(h) ==
    \A i \in 1..Len(h) : h[i].op = "update" => h[i].home # h[i].away

\* the engine fed games between distinct teams, and resets
NextAgg ==
    \/ \E h \in Teams, s \in { <<110, 100>>, <<100, 125>> } :
          \E a \in Teams \ {h} : UpdateCall(h, a, s)
    \/ ResetCall

SpecAgg == InitElo /\ [][NextAgg]_vars

\* C16: over calls of update between distinct teams and of season_reset,
\* started on the empty map, no call lowers the sum over all teams of
\* (rating - initial), and an update leaves it as it was.
C16_AggregateNeverDecreases ==
    [][ DistinctTeamsOnly(history') =>
            /\ Aggregate(ratings') >= Aggregate(ratings)
            /\ last'.op = "update" =>
                   Aggregate(ratings') = Aggregate(ratings) ]_vars

\* a reset after an update between distinct teams raised the sum, and an
\* update came after it
C16_Witness ==
    /\ DistinctTeamsOnly(history)
    /\ Len(history) = 3
    /\ history[1].op = "update"
    /\ history[2].op = "reset"
    /\ history[3].op = "update"
    /\ Aggregate(ratings) > 0
    /\ Aggregate(ratings) = Aggregate(Replay(SubSeq(history, 1, 2)))

----------------------------------------------------------------------------
(* get_rating called on the running engine *)

\* a plausible slip: the lookup stores the default it returns
\* (ratings.setdefault)
GetRatingCallSetDefault(team_id) ==
    /\ ratings' = [t \in DOMAIN ratings \cup {team_id} |->
                      get_rating(ratings, t)]
    /\ last' = [NoCall EXCEPT !.op = "get", !.home = team_id,
                              !.old_home = get_rating(ratings, team_id),
                              !.new_home = get_rating(ratings, team_id)]
    /\ UNCHANGED <<history, movVars, rollVars, btVars, predVars>>

\* a call of EloSystem.get_rating(team_id): last holds the team asked for
\* and, as old_home and new_home, the value returned
GetRatingCall(team_id) ==
    /\ ratings' = ratings
    /\ last' = [NoCall EXCEPT !.op = "get", !.home = team_id,
                              !.old_home = get_rating(ratings, team_id),
                              !.new_home = get_rating(ratings, team_id)]
    /\ UNCHANGED <<history, movVars, rollVars, btVars, predVars>>

NextGet ==
    \/ \E h \in Teams, a \in Teams : UpdateCall(h, a, <<110, 100>>)
    \/ \E t \in Teams : GetRatingCall(t)

SpecGet == InitElo /\ [][NextGet]_vars

\* the teams passed to update by the calls h
SeenTeams(h) ==
    {h[i].home : i \in {k \in 1..Len(h) : h[k].op = "update"}}
    \cup {h[i].away : i \in {k \in 1..Len(h) : h[k].op = "update"}}

\* rating map r with the teams S not in it entered at the initial rating
WithInitial(r, S) ==
    [t \in DOMAIN r \cup S |->
        IF t \in DOMAIN r THEN r[t] ELSE ELO_INITIAL * Milli]

\* C18: get_rating returns 1500 for a team never passed to update and
\* leaves the rating map as it was; it is defined for every team; and an
\* update moves a team never passed to update from 1500, as if the map had
\* held it at 1500.
C18_UnseenTeamsDefault ==
    [][ /\ last'.op = "get" =>
               /\ ratings' = ratings
               /\ last'.home \notin SeenTeams(history)
                      => last'.new_home = 1500 * Milli
        /\ \A t \in Teams : get_rating(ratings, t) \in Int
        /\ last'.op = "update" =>
               /\ last'.home \notin SeenTeams(history)
                      => last'.old_home = 1500 * Milli
               /\ last'.away \notin SeenTeams(history)
                      => last'.old_away = 1500 * Milli
               /\ ratings' = update(WithInitial(ratings,
                                                {last'.home, last'.away}),
                                    last'.home, last'.away,
                                    last'.home_pts, last'.away_pts) ]_vars

\* with one team updated away from 1500, a lookup of a team never passed to
\* update returned 1500 and the map held no entry for it afterwards
C18_Witness ==
    /\ last.op = "get"
    /\ last.home \notin SeenTeams(history)
    /\ last.home \notin DOMAIN ratings
    /\ last.new_home = 1500 * Milli
    /\ \E t \in DOMAIN ratings : ratings[t] # 1500 * Milli

----------------------------------------------------------------------------
(* The predictions table under insert_prediction and predict_today *)

\* ids the table hands out before the direct inserts stop
MaxRows == 3

\* the model outputs of a prediction dict inserted directly
ManualOutputs == {"revised"}

\* a prediction dict for game g of today
ManualPrediction(g, v) ==
    [game_id |-> g, game_date |-> today,
     home_team_id |-> HomeOf(g), away_team_id |-> AwayOf(g),
     pred_home_win_prob |-> <<"win_model", v>>,
     pred_spread |-> <<"spread_model", v>>,
     pred_total |-> <<"total_model", v>>,
     vegas_spread |-> None, vegas_total |-> None,
     vegas_home_ml |-> None, vegas_away_ml |-> None,
     home_elo |-> Round1(get_rating(ratings, HomeOf(g))),
     away_elo |-> Round1(get_rating(ratings, AwayOf(g)))]

\* the store and the scoreboards of SpecPredict, every team with enough
\* games and no game raising
InitUpsert ==
    /\ InitPredict
    /\ logs = PredLogs(MinGames)
    /\ \A k \in 1..Len(schedule) : schedule[k].fault = "none"

\* a call of insert_prediction(pred)
InsertPredictionCall(pred) ==
    /\ next_id <= MaxRows
    /\ predictions' = insert_prediction(predictions, next_id, pred)
    /\ next_id' = next_id + 1
    /\ last_run' = [path |-> "insert", returned |-> <<pred>>, fetches |-> 0,
                    inferences |-> 0, writes |-> 1, odds |-> <<>>]
    /\ UNCHANGED <<today, schedule, runs_today, compute_runs, results_table,
                   eloVars, movVars, rollVars, btVars>>

NextUpsert ==
    \/ PredictToday
    \/ NextDay
    \/ \E g \in GameIds, v \in ManualOutputs :
          InsertPredictionCall(ManualPrediction(g, v))

SpecUpsert == InitUpsert /\ [][NextUpsert]_vars

\* C19: after every insert_prediction call and every predict_today
\* invocation the table holds at most one row per game_id; an insert for a
\* stored game_id goes through, leaves the new prediction as that game's
\* row and the rows of the other games as they were.
C19_UpsertUniqueness ==
    [][ /\ \A a, b \in predictions' : a.game_id = b.game_id => a = b
        /\ last_run'.path = "insert" =>
               LET pred == last_run'.returned[1]
               IN  /\ \E row \in predictions' : WithoutId(row) = WithId(pred, 0)
                   /\ {row \in predictions' : row.game_id # pred.game_id}
                          = {row \in predictions : row.game_id # pred.game_id}
      ]_vars

\* a prediction stored by predict_today was replaced by a direct insert of
\* different outputs for the same game, the other game's row still there
C19_Witness ==
    /\ last_run.path = "insert"
    /\ runs_today >= 1
    /\ Cardinality(predictions) = 2
    /\ last_run.returned[1].pred_spread = <<"spread_model", "revised">>
    /\ \E row \in predictions :
           /\ row.game_id = last_run.returned[1].game_id
           /\ row.pred_spread = <<"spread_model", "revised">>
           /\ row.id > 2
    /\ \E row \in predictions : row.id <= 2

----------------------------------------------------------------------------
(* The market lines of a prediction *)

\* the four market columns of a row are null
NoLines(row) ==
    /\ row.vegas_spread = None
    /\ row.vegas_total = None
    /\ row.vegas_home_ml = None
    /\ row.vegas_away_ml = None

\* C20: in an invocation that ran the loop to its end, every scheduled game
\* with sufficient history is returned and stored; its four market columns
\* are those the feed holds under "AWAY_FULL_NAME @ HOME_FULL_NAME", and
\* all null when the feed holds nothing under that key or is empty.
C20_MarketLineResolution ==
    last_run.path = "computed" =>
        \A k \in 1..Len(schedule) :
            SufficientHistory(schedule[k]) =>
                LET g   == schedule[k]
                    key == NBA_TEAMS[g.away_team_id] \o " @ "
                               \o NBA_TEAMS[g.home_team_id]
                IN  \E row \in predictions :
                        /\ row.game_id = g.game_id
                        /\ row.game_date = today
                        /\ \E n \in 1..Len(last_run.returned) :
                               WithId(last_run.returned[n], 0)
                                   = WithoutId(row)
                        /\ IF key \in DOMAIN last_run.odds
                           THEN /\ row.vegas_spread = last_run.odds[key].spread
                                /\ row.vegas_total = last_run.odds[key].total
                                /\ row.vegas_home_ml
                                       = last_run.odds[key].home_ml
                                /\ row.vegas_away_ml
                                       = last_run.odds[key].away_ml
                           ELSE NoLines(row)

\* the feed listed one of two scheduled games: the listed one was stored
\* with its lines, the other with none
C20_Witness ==
    /\ last_run.path = "computed"
    /\ DOMAIN last_run.odds = {FeedKey(1)}
    /\ \E row \in predictions :
           row.game_id = 1 /\ row.vegas_spread = QuotedLine.spread
    /\ \E row \in predictions : row.game_id = 2 /\ NoLines(row)

----------------------------------------------------------------------------
(* what the compute path of predict_today returns (predictor.py 109-186) *)

\* the scheduled games the loop does not skip, in schedule order
NotSkipped == SelectSeq(schedule, SufficientHistory)

\* C21: an invocation that ran the loop to its end returns one entry per
\* scheduled game that was not skipped, in schedule order, each entry is
\* the prediction computed for that game in this invocation, and each entry
\* is a row of the predictions table.
C21_ReturnedIsPersisted ==
    last_run.path = "computed" =>
        /\ Len(last_run.returned) = Len(NotSkipped)
        /\ last_run.inferences = Len(NotSkipped)
        /\ last_run.writes = Len(NotSkipped)
        /\ \A k \in 1..Len(NotSkipped) :
               /\ last_run.returned[k].game_id = NotSkipped[k].game_id
               /\ last_run.returned[k].game_date = today
               /\ WithId(last_run.returned[k], 0) \in Persisted(predictions)

\* a run over a scoreboard of two games, the first listed with the larger
\* id, returned both in that order
C21_Witness ==
    /\ last_run.path = "computed"
    /\ Len(last_run.returned) = 2
    /\ Len(schedule) = 2
    /\ last_run.returned[1].game_id > last_run.returned[2].game_id
    /\ WithId(last_run.returned[1], 0) \in Persisted(predictions)

----------------------------------------------------------------------------
(* when the rating file is written and read (feature_engineer.py 87-123, *)
(* predictor.py 97-140)                                                   *)

\* the update calls among the calls h
UpdateCalls(h) == {p \in 1..Len(h) : h[p].op = "update"}

\* C22: the rating file changes only in a step of build_game_features_df,
\* which leaves in it the ratings of the replay of every stored game; a
\* run of predict_today makes no update, season_reset or save, leaves the
\* rating file as it found it, and gives every prediction the ratings the
\* file held when the run started.
C22_PersistenceAtRunBoundaries ==
    [][ /\ (ratings' # ratings \/ history' # history) =>
               /\ built_at # Len(logs)
               /\ built_at' = Len(logs')
               /\ logs' = logs
               /\ Cardinality(UpdateCalls(history')) =
                      Len(home_games(logs, tie_rev))
               /\ ratings' = Replay(history')
        /\ runs_today' # runs_today =>
               /\ ratings' = ratings
               /\ history' = history
               /\ \A k \in 1..Len(last_run'.returned) :
                      LET p == last_run'.returned[k]
                      IN  /\ p.home_elo =
                                 Round1(get_rating(ratings, p.home_team_id))
                          /\ p.away_elo =
                                 Round1(get_rating(ratings, p.away_team_id))
      ]_vars

\* a prediction was returned after a replay of four games left ratings
\* away from the initial one in the file
C22_Witness ==
    /\ runs_today = 1
    /\ Len(last_run.returned) = 1
    /\ Cardinality(UpdateCalls(history)) = 4
    /\ last_run.returned[1].home_elo # Round1(ELO_INITIAL * Milli)
    /\ ratings = Replay(history)

----------------------------------------------------------------------------
(* scripts/daily_update.py: the daily cron run, after a training run has *)
(* built the table and saved the ratings                                 *)

\* days on which the cron job runs
MaxDailyDays == 3

\* the store a training run found: three games of team 1 at home to team 2
TrainedLogs ==
    << GameLog(1, 1, 1, 1, 1, WinLine), GameLog(1, 1, 1, 2, 0, LossLineFull),
       GameLog(2, 2, 1, 1, 1, LossLine), GameLog(2, 2, 1, 2, 0, WinLine),
       GameLog(3, 3, 1, 1, 1, WinLine), GameLog(3, 3, 1, 2, 0, LossLineFull) >>

\* the first day of the cron job: the day after the last stored game
FirstDailyDay == TrainedLogs[Len(TrainedLogs)].game_date + 1

\* what the scoreboard may list on a day: nothing, or one game between the
\* two teams, its id the date
DailyBoards(day) == { <<>>, <<Fixture(day, 1, 2)>>, <<Fixture(day, 2, 1)>> }

\* insert_game_logs: INSERT OR IGNORE under PRIMARY KEY (game_id, team_id)
insert_game_logs(L, rows) ==
    L \o SelectSeq(rows, LAMBDA row :
                     \A i \in 1..Len(L) :
                        ~(L[i].game_id = row.game_id
                          /\ L[i].team_id = row.team_id))

\* the two rows the league feed has for a game that was played, o its result
PlayedRows(p, o) ==
    << GameLog(p.game_id, p.game_date, 1, p.home_team_id, 1, o[1]),
       GameLog(p.game_id, p.game_date, 1, p.away_team_id, 0, o[2]) >>

RECURSIVE Flatten(_)
Flatten(ss) == IF ss = <<>> THEN <<>> ELSE Head(ss) \o Flatten(Tail(ss))

\* fetch_season_game_logs(current_season) on day: the rows of every game
\* of the season played so far, that is the stored ones and the games
\* listed on an earlier day; o is the result of the games not yet stored
fetch_season_game_logs(L, P, day, o) ==
    LET played == OrderByGameId({p \in P : p.game_date < day})
    IN  L \o Flatten([k \in 1..Len(played) |-> PlayedRows(played[k], o)])

\* the unscored predictions: no row in results, dated yesterday or earlier
Unscored(P, R, yesterday) ==
    {p \in P : /\ p.game_date <= yesterday
               /\ \A res \in R : res.game_id # p.game_id}

\* SELECT pts FROM game_logs WHERE game_id = ? AND team_id = ?
PtsRows(L, game_id, team_id) ==
    {i \in 1..Len(L) : L[i].game_id = game_id /\ L[i].team_id = team_id}

\* the result row of a prediction whose two rows are stored
ResultRow(L, p, yesterday) ==
    LET home_pts == L[CHOOSE i \in PtsRows(L, p.game_id, p.home_team_id) :
                         TRUE].pts
        away_pts == L[CHOOSE i \in PtsRows(L, p.game_id, p.away_team_id) :
                         TRUE].pts
    IN  [game_id |-> p.game_id, game_date |-> yesterday,
         home_team_id |-> p.home_team_id, away_team_id |-> p.away_team_id,
         home_pts |-> home_pts, away_pts |-> away_pts,
         home_win |-> IF home_pts > away_pts THEN 1 ELSE 0]

\* insert_result: INSERT OR REPLACE under PRIMARY KEY game_id
insert_result(R, result) ==
    {res \in R : res.game_id # result.game_id} \cup {result}

\* score_yesterday on store L, predictions P and results R: the store and
\* the results it leaves
score_yesterday(L, P, R, day, o) ==
    LET yesterday == day - 1
        unscored  == Unscored(P, R, yesterday)
        refreshed == insert_game_logs(L, fetch_season_game_logs(L, P, day, o))
        matched   == {p \in unscored :
                         /\ PtsRows(refreshed, p.game_id, p.home_team_id) # {}
                         /\ PtsRows(refreshed, p.game_id, p.away_team_id) # {}}
    IN  IF unscored = {}
        THEN [logs |-> L, results |-> R]
        ELSE [logs |-> refreshed,
              results |-> {res \in R : \A p \in matched :
                                          res.game_id # p.game_id}
                          \cup {ResultRow(refreshed, p, yesterday) :
                                   p \in matched}]

\* the state a training run leaves: the table built from the stored games,
\* the ratings of its replay saved
InitDaily ==
    /\ IdleMov
    /\ logs = TrainedLogs
    /\ tie_rev = FALSE
    /\ snapshot = <<>>
    /\ \E res \in {build_game_features_df(TrainedLogs, FALSE)} :
          /\ team_rolling = res.team_rolling
          /\ ratings = res.elo
          /\ history = res.calls
          /\ games_df = res.games
    /\ last = NoCall
    /\ built_at = Len(TrainedLogs)
    /\ seasons = <<>>
    /\ results = "none"
    /\ fits = 0
    /\ today = FirstDailyDay
    /\ schedule = <<>>
    /\ predictions = {}
    /\ next_id = 1
    /\ runs_today = 0
    /\ compute_runs = 0
    /\ last_run = NoRun
    /\ results_table = {}

\* main() of daily_update.py: init_db, score_yesterday, predict_today
DailyUpdate(board, o) ==
    /\ runs_today = 0
    /\ \E sc \in {score_yesterday(logs, predictions, results_table, today,
                                  o)} :
          /\ logs' = sc.logs
          /\ results_table' = sc.results
          /\ \E res \in {predict_today(predictions, next_id, today, board,
                                       EmptyFeed, sc.logs, ratings,
                                       tie_rev)} :
                /\ predictions' = res.table
                /\ next_id' = res.next_id
                /\ last_run' = [path |-> res.path, returned |-> res.returned,
                                fetches |-> res.fetches,
                                inferences |-> res.inferences,
                                writes |-> res.writes,
                                odds |-> IF res.fetches = 2 THEN EmptyFeed
                                         ELSE <<>>]
    /\ schedule' = board
    /\ runs_today' = 1
    /\ compute_runs' = 1
    /\ UNCHANGED <<today, team_rolling, built_at, tie_rev, snapshot, eloVars,
                   movVars, btVars>>

\* midnight after the cron run: the listed game is played
Midnight ==
    /\ runs_today = 1
    /\ today < FirstDailyDay + MaxDailyDays - 1
    /\ today' = today + 1
    /\ runs_today' = 0
    /\ compute_runs' = 0
    /\ UNCHANGED <<schedule, predictions, next_id, last_run, results_table,
                   eloVars, movVars, rollVars, btVars>>

NextDaily ==
    \/ \E board \in DailyBoards(today), o \in Outcomes : DailyUpdate(board, o)
    \/ Midnight
    \/ BuildGameFeatures

SpecDaily == InitDaily /\ [][NextDaily]_vars

\* the ratings of the replay of the games L
RatingsOf(L) == build_game_features_df(L, FALSE).elo

\* C23: every prediction a daily run returns carries the ratings of the
\* replay of every game that was in the store when the run started.
C23_RatingsIncludeRecordedGames ==
    [][ runs_today' = runs_today + 1 =>
            \A k \in 1..Len(last_run'.returned) :
                LET p == last_run'.returned[k]
                IN  /\ p.home_elo =
                           Round1(get_rating(RatingsOf(logs), p.home_team_id))
                    /\ p.away_elo =
                           Round1(get_rating(RatingsOf(logs), p.away_team_id))
      ]_vars

----------------------------------------------------------------------------
(* the update rule on the running engine (elo.py 8-41) *)

\* games between two distinct teams, any score line, and season resets
NextRule ==
    \/ \E h \in Teams, s \in ScoreLines :
          \E a \in Teams \ {h} : UpdateCall(h, a, s)
    \/ ResetCall

SpecRule == InitElo /\ [][NextRule]_vars

\* the last call was an update between two distinct teams
LastUpdateDistinct == last.op = "update" /\ last.home # last.away

\* K * mov_multiplier(margin) * (actual - expected) for the last call, in
\* thousandths of a point
LastDelta ==
    LET actual   == IF last.home_pts > last.away_pts THEN 10000 ELSE 0
        expected == expected_score(
                        last.old_home + ELO_HOME_ADVANTAGE * Milli,
                        last.old_away)
        margin   == last.home_pts - last.away_pts
    IN  SDiv(ELO_K * mov_multiplier(margin) * (actual - expected), 10000)

\* C24: an update adds delta = K * mov_multiplier(margin) * (actual -
\* expected) to the home rating and subtracts it from the away rating,
\* actual being 1 for home_pts > away_pts and 0 otherwise; with both teams
\* at 1500 and a home win by 10 the expected home probability is 0.64 to
\* two decimals, the multiplier is 1.0, and the new ratings are 1507.2 and
\* 1492.8 to one decimal.
C24_UpdateScenario ==
    LastUpdateDistinct =>
        /\ last.new_home = last.old_home + LastDelta
        /\ last.new_away = last.old_away - LastDelta
        /\ ( /\ last.old_home = 1500 * Milli
             /\ last.old_away = 1500 * Milli
             /\ last.home_pts - last.away_pts = 10 )
           => /\ Abs(expected_score(1600 * Milli, 1500 * Milli) - 6400) <= 50
              /\ mov_multiplier(10) = 1 * Milli
              /\ Abs(LastDelta - 7200) <= 50
              /\ Abs(last.new_home - 1507200) <= 50
              /\ Abs(last.new_away - 1492800) <= 50

\* the scenario itself: the first call on a fresh engine, a home win by 10
C24_Witness ==
    /\ LastUpdateDistinct
    /\ Len(history) = 1
    /\ last.old_home = 1500 * Milli
    /\ last.old_away = 1500 * Milli
    /\ last.home_pts - last.away_pts = 10
    /\ ratings[last.home] > 1507 * Milli

----------------------------------------------------------------------------
(* the ratings recorded for each game of the replay                      *)
(* (feature_engineer.py 93-121, 139-141)                                 *)

\* the replay of the store as it is
ReplayOfStore ==
    EloReplay(ReplayStart, logs, home_games(logs, tie_rev), 1)

\* the position of the k-th update among the calls h
KthUpdate(h, k) ==
    CHOOSE p \in 1..Len(h) :
        /\ h[p].op = "update"
        /\ Cardinality({q \in 1..p : h[q].op = "update"}) = k

\* the engine as the calls before the k-th update of h leave it: the games
\* processed earlier, with the resets made so far
BeforeKthUpdate(h, k) == Replay(SubSeq(h, 1, KthUpdate(h, k) - 1))

\* the position of a column in feature_cols
FeatureIndex(name) ==
    CHOOSE c \in 1..Len(feature_cols) : feature_cols[c] = name

\* C25: the home and away rating recorded for the k-th game of the replay
\* are the ratings a fresh engine holds after exactly the calls made before
\* that game's update (the updates of the games processed earlier and the
\* season resets), and the elo_diff of every row of the table is the
\* difference of the two.
C25_PreGameSnapshot ==
    (logs # <<>> /\ built_at = Len(logs)) =>
        LET st == ReplayOfStore
        IN  /\ st.calls = history
            /\ Len(st.elo_home_col) = Cardinality(UpdateCalls(history))
            /\ \A k \in 1..Len(st.elo_home_col) :
                   LET c      == history[KthUpdate(history, k)]
                       before == BeforeKthUpdate(history, k)
                   IN  /\ st.elo_home_col[k][2] = get_rating(before, c.home)
                       /\ st.elo_away_col[k][2] = get_rating(before, c.away)
            /\ \A n \in 1..Len(games_df) :
                   games_df[n].features[FeatureIndex("elo_diff")] =
                       MapCol(st.elo_home_col, games_df[n].game_id)
                       - MapCol(st.elo_away_col, games_df[n].game_id)

\* the table holds the fourth game, played in a new season by two teams
\* whose ratings the first three games moved apart
C25_Witness ==
    /\ built_at = Len(logs)
    /\ Len(games_df) = 1
    /\ games_df[1].game_id = 4
    /\ games_df[1].season = 2
    /\ games_df[1].features[FeatureIndex("elo_diff")] # 0
    /\ Cardinality(UpdateCalls(history)) = 4

----------------------------------------------------------------------------
(* which entries of the rating map a call may touch (elo.py 25-50) *)

\* C26: an update leaves in the map the teams it held and the two named
\* teams, and leaves the rating of every team other than the two named ones
\* as it was; a season_reset leaves the map with exactly the teams it held.
C26_FrameOfUpdate ==
    [][ Len(history') = Len(history) + 1 =>
            IF last'.op = "update"
            THEN /\ DOMAIN ratings' =
                        DOMAIN ratings \cup {last'.home, last'.away}
                 /\ \A t \in DOMAIN ratings \ {last'.home, last'.away} :
                        ratings'[t] = ratings[t]
            ELSE DOMAIN ratings' = DOMAIN ratings ]_vars

\* an update between two teams while the map held a third team away from
\* the initial rating, followed by a reset of the three
C26_Witness ==
    /\ Len(history) = 3
    /\ history[1].op = "update"
    /\ history[2].op = "update"
    /\ history[3].op = "reset"
    /\ history[1].home # history[1].away
    /\ {history[1].home, history[1].away}
           # {history[2].home, history[2].away}
    /\ Cardinality(DOMAIN ratings) = 3

----------------------------------------------------------------------------
(* which way an update moves the two ratings (elo.py 8-41) *)

\* C27: an update between two distinct teams raises the home rating and
\* lowers the away rating when home_pts > away_pts, and lowers the home
\* rating and raises the away rating otherwise, a tie included.
C27_DirectionOfUpdate ==
    LastUpdateDistinct =>
        IF last.home_pts > last.away_pts
        THEN /\ last.new_home > last.old_home
             /\ last.new_away < last.old_away
        ELSE /\ last.new_home < last.old_home
             /\ last.new_away > last.old_away

\* a tie between two teams, the home side rated below the away side after
\* two earlier games, moved the home rating down
C27_Witness ==
    /\ LastUpdateDistinct
    /\ Len(history) = 3
    /\ last.home_pts = last.away_pts
    /\ last.old_home < last.old_away
    /\ ratings[last.home] < last.old_home
    /\ ratings[last.away] > last.old_away

----------------------------------------------------------------------------
(* how the training seasons grow from fold to fold (backtest.py 8-28) *)

\* C28: a list of fewer than four seasons yields no fold; otherwise the
\* fold of index 2 trains on exactly the first three seasons, the training
\* seasons of each further fold are those of the fold before followed by
\* that fold's test season, every evaluated fold trains on exactly the rows
\* of its training seasons, and an evaluated fold that follows an evaluated
\* one trains on that one's training rows and test rows together.
C28_ExpandingWindow ==
    results # "none" =>
        /\ Len(seasons) < 4 =>
               /\ FoldRange(seasons) = {}
               /\ results = <<>>
               /\ fits = 0
        /\ Len(seasons) >= 4 =>
               /\ 2 \in FoldRange(seasons)
               /\ train_seasons(seasons, 2) =
                      << seasons[1], seasons[2], seasons[3] >>
        /\ \A i \in FoldRange(seasons) :
               (i + 1) \in FoldRange(seasons) =>
                   train_seasons(seasons, i + 1) =
                       Append(train_seasons(seasons, i),
                              test_season(seasons, i))
        /\ \A n \in 1..Len(results) :
               results[n].train_rows =
                   {k \in 1..Len(games_df) :
                       games_df[k].season
                           \in Range(train_seasons(seasons, results[n].i))}
        /\ \A n, m \in 1..Len(results) :
               results[m].i = results[n].i + 1 =>
                   results[m].train_rows =
                       results[n].train_rows \cup results[n].test_rows

\* five seasons, all with games: the folds of index 2 and 3 were evaluated,
\* the second training on the rows of one season more
C28_Witness ==
    /\ results # "none"
    /\ Len(seasons) = 5
    /\ Len(results) = 2
    /\ results[1].i = 2
    /\ results[2].i = 3
    /\ Cardinality(results[2].train_rows)
           > Cardinality(results[1].train_rows)
    /\ results[1].test_rows # {}

----------------------------------------------------------------------------
(* app.py: the spread edge on the index page (68-87) and in the ATS       *)
(* record of the performance page (130-144); spreads in tenths of a point *)

\* what a stored prediction of a game may look like: its date, the model's
\* home margin and the market's home spread, if any
EdgeOptions ==
    {<<d, ps, vs>> : d \in {1, 2}, ps \in {-45, 30},
                     vs \in {None, Some(-30), Some(60)}}

\* final scores of a game
FinalScores == { <<110, 100>>, <<100, 104>> }

\* the stored prediction of game g with option c
EdgeRow(g, c) ==
    WithId([game_id |-> g, game_date |-> c[1],
            home_team_id |-> HomeOf(g), away_team_id |-> AwayOf(g),
            pred_home_win_prob |-> 6000, pred_spread |-> c[2],
            pred_total |-> 2200,
            vegas_spread |-> c[3], vegas_total |-> None,
            vegas_home_ml |-> None, vegas_away_ml |-> None,
            home_elo |-> Round1(ELO_INITIAL * Milli),
            away_elo |-> Round1(ELO_INITIAL * Milli)], g)

\* edge = vegas_spread + pred_spread (app.py 80)
spread_edge(p) == p.vegas_spread[1] + p.pred_spread

\* a plausible slip: an edge of zero is played on the home side (>= for >)
spreadPlayTieHome(p) ==
    IF p.vegas_spread = None THEN None
    ELSE IF spread_edge(p) >= 0
    THEN Some([team |-> p.home_team_id, line |-> p.vegas_spread[1]])
    ELSE Some([team |-> p.away_team_id, line |-> -p.vegas_spread[1]])

\* p["spread_play"]: the side to play and its line, None without a market
\* spread (app.py 75-87)
spread_play(p) ==
    IF p.vegas_spread = None THEN None
    ELSE IF spread_edge(p) > 0
    THEN Some([team |-> p.home_team_id, line |-> p.vegas_spread[1]])
    ELSE Some([team |-> p.away_team_id, line |-> -p.vegas_spread[1]])

\* the spread columns index() adds to a prediction; the other display
\* columns do not enter them
Enrich(p) ==
    [game_id |-> p.game_id, home_team_id |-> p.home_team_id,
     away_team_id |-> p.away_team_id, pred_spread |-> p.pred_spread,
     vegas_spread |-> p.vegas_spread,
     spread_edge |-> IF p.vegas_spread = None THEN None
                     ELSE Some(spread_edge(p)),
     spread_play |-> spread_play(p)]

\* get_predictions_with_results: predictions INNER JOIN results on game_id
get_predictions_with_results(P, R) ==
    {[p |-> j[1], home_pts |-> j[2].home_pts, away_pts |-> j[2].away_pts] :
        j \in {x \in P \X R : x[1].game_id = x[2].game_id}}

\* model_covers of a joined row (app.py 137-139)
model_covers(r) == r.p.vegas_spread[1] + r.p.pred_spread > 0

\* actual_covers of a joined row (app.py 135, 141)
actual_covers(r) == r.home_pts - r.away_pts > -r.p.vegas_spread[1]

\* the ATS record of performance() (app.py 130-144)
ats_record(rows) ==
    LET lined == {r \in rows : r.p.vegas_spread # None}
    IN  [ats_wins  |-> Cardinality({r \in lined :
                                       model_covers(r) = actual_covers(r)}),
         ats_total |-> Cardinality(lined)]

\* a day with an empty scoreboard; of each game a prediction may be stored,
\* and a result for a prediction of an earlier day
InitEdge ==
    /\ IdleElo
    /\ IdleMov
    /\ IdleRoll
    /\ IdleBt
    /\ today = 2
    /\ schedule = <<>>
    /\ next_id = Cardinality(GameIds) + 1
    /\ runs_today = 0
    /\ compute_runs = 0
    /\ last_run = NoRun
    /\ \E c \in [GameIds -> EdgeOptions \cup {None}],
          f \in [GameIds -> FinalScores \cup {None}] :
          /\ predictions = {EdgeRow(g, c[g]) : g \in {x \in GameIds :
                                                        c[x] # None}}
          /\ results_table =
                 {[game_id |-> g, game_date |-> c[g][1],
                   home_team_id |-> HomeOf(g), away_team_id |-> AwayOf(g),
                   home_pts |-> f[g][1], away_pts |-> f[g][2],
                   home_win |-> IF f[g][1] > f[g][2] THEN 1 ELSE 0] :
                    g \in {x \in GameIds : /\ c[x] # None
                                           /\ f[x] # None
                                           /\ c[x][1] < 2}}

\* index(): today's stored predictions, or those predict_today computes
\* (none when it raises), each with its spread columns
IndexPage ==
    /\ last_run.path # "index"
    /\ LET existing == get_predictions(predictions, today)
       IN  IF existing # <<>>
           THEN /\ last_run' = [NoRun EXCEPT
                       !.path = "index",
                       !.returned = [k \in 1..Len(existing) |->
                                        Enrich(existing[k])]]
                /\ UNCHANGED <<predictions, next_id>>
           ELSE \E res \in {predict_today(predictions, next_id, today,
                                          schedule, EmptyFeed, logs, ratings,
                                          tie_rev)} :
                   /\ predictions' = res.table
                   /\ next_id' = res.next_id
                   /\ last_run' = [NoRun EXCEPT
                          !.path = "index",
                          !.returned = [k \in 1..Len(res.returned) |->
                                           Enrich(res.returned[k])],
                          !.fetches = res.fetches]
    /\ UNCHANGED <<today, schedule, runs_today, compute_runs, results_table,
                   eloVars, movVars, rollVars, btVars>>

\* performance(): the ATS record over the scored predictions
PerformancePage ==
    /\ last_run.path # "performance"
    /\ last_run' = [NoRun EXCEPT
           !.path = "performance",
           !.returned =
               IF get_predictions_with_results(predictions,
                                               results_table) = {}
               THEN <<>>
               ELSE <<ats_record(get_predictions_with_results(
                                     predictions, results_table))>>]
    /\ UNCHANGED <<today, schedule, predictions, next_id, runs_today,
                   compute_runs, results_table, eloVars, movVars, rollVars,
                   btVars>>

NextEdge ==
    \/ IndexPage
    \/ PerformancePage

SpecEdge == InitEdge /\ [][NextEdge]_vars

\* the scored predictions that carry a market spread
LinedRows ==
    {r \in get_predictions_with_results(predictions, results_table) :
        r.p.vegas_spread # None}

\* C29: the index page plays the home side of a prediction with a market
\* spread exactly when vegas_spread + pred_spread > 0 and the away side
\* otherwise, a sum of zero included; the performance page counts the model
\* as picking the home side exactly when vegas_spread + pred_spread > 0;
\* so on every such prediction the two agree.
C29_SameSignConvention ==
    /\ last_run.path = "index" =>
           \A k \in 1..Len(last_run.returned) :
               LET p == last_run.returned[k]
               IN  IF p.vegas_spread = None
                   THEN p.spread_play = None /\ p.spread_edge = None
                   ELSE LET v == p.vegas_spread[1]
                        IN  /\ p.spread_edge = Some(v + p.pred_spread)
                            /\ p.spread_play =
                                   IF v + p.pred_spread > 0
                                   THEN Some([team |-> p.home_team_id,
                                              line |-> v])
                                   ELSE Some([team |-> p.away_team_id,
                                              line |-> -v])
    /\ last_run.path = "performance" =>
           IF LinedRows = {} /\ last_run.returned = <<>> THEN TRUE
           ELSE /\ last_run.returned[1].ats_total = Cardinality(LinedRows)
                /\ last_run.returned[1].ats_wins =
                       Cardinality({r \in LinedRows :
                           (r.p.vegas_spread[1] + r.p.pred_spread > 0)
                           = (r.home_pts - r.away_pts
                                  > -r.p.vegas_spread[1])})
    /\ \A r \in LinedRows :
           model_covers(r)
               <=> spread_play(r.p) = Some([team |-> r.p.home_team_id,
                                            line |-> r.p.vegas_spread[1]])

\* the index page showed a prediction whose edge is zero and played the
\* away side of it
C29_Witness ==
    /\ last_run.path = "index"
    /\ \E k \in 1..Len(last_run.returned) :
           LET p == last_run.returned[k]
           IN  /\ p.spread_edge = Some(0)
               /\ p.spread_play = Some([team |-> p.away_team_id,
                                        line |-> -p.vegas_spread[1]])

====
